---- MODULE Spec2Model ----
(***************************************************************************)
(* A model of via-wind's visibility / field-of-view engine:                *)
(*   - raster.mosaic_block and the merge command (cli/merge.py run),       *)
(*   - the per-turbine viewshed() task of cli/viewshed.py,                 *)
(*   - the pure helpers of visibility.py.                                  *)
(* Rasters are functions from <<row, col>> (0-based) to integers; all      *)
(* sources of a mosaic share the mosaic's pixel grid, so the geographic    *)
(* rectangles the code intersects are modelled by their pixel rectangles.  *)
(***************************************************************************)
EXTENDS Integers, Sequences, FiniteSets, TLC

VARIABLES
    mode,             \* which entry point of the package this behaviour runs
    vrt_sources_df,   \* read_vrt_sources(): sequence of [bounds, src_file]
    full_profile,     \* profile of the VRT: [width, height]
    zero_read_raises, \* whether the raster library raises on a zero-size window
    block_size,       \* merge run(): block_size
    task_state,       \* merge run(): offsets -> "queued" | "running" | "ok" | "failed"
    block_files,      \* blocks directory: <<row_offset, col_offset>> -> raster
    max_workers,      \* merge run(): size of the process pool
    merge_pc,         \* merge run(): position in run()
    run_error,        \* merge run(): the unit named by the raised error, or <<>>
    merged_tif,       \* fov-pct_sum.tif, or NoFile
    turbine,          \* viewshed(): the turbine row [gid, rd_m, hh_m]
    obstruction_interval_m,
    obstruction_heights,  \* viewshed(): the ladder, a sequence
    height_idx,       \* viewshed(): position of the height loop in the ladder
    viewshed_log,     \* the oracle's result at each ladder position so far
    obst_height_array,    \* viewshed(): the visibility composite, pixel -> height
    vs_pc,            \* viewshed(): position in the task
    fov_df,           \* the FOV lookup table: a sequence of rows
    distance_array,   \* bin_distances(): pixel -> distance in metres
    distance_bin_array,   \* pixel -> table distance level
    bin_pc,           \* whether bin_distances() has been applied
    lookangle_array,  \* pixel -> aspect class (1, 2, 3)
    fov_pct,          \* lookup_fov_pct(): [ok, data], pixel -> percent
    lookup_pc,        \* whether lookup_fov_pct() has been applied
    winddir_cols,     \* the angle in the name of each freq_winddir_<angle> column
    direction_array,  \* pixel -> direction from the turbine, degrees
    wd_idx,           \* viewshed(): position of the wind-direction loop
    weights,          \* viewshed(): weights kept so far
    fov_pct_arrays,   \* viewshed(): per-direction percent arrays kept so far
    fov_pct_weighted, \* fov-pct_gid{gid}.tif: pixel -> [num, den], or NoFile
    turbines_df,      \* the turbines dataset: a sequence of rows
    max_distance_km,  \* the configured analysis distance
    check_pc,         \* outcome of check_fov_lkup_complete()
    fov_columns,      \* viewshed run(): column name -> dtype kind of the csv
    oracle_covers,    \* turbine row -> whether the elevation source covers it
    vrun_pc,          \* viewshed run(): position
    vtask_state,      \* viewshed run(): turbine row -> state of its future
    out_files,        \* viewsheds directory: file name -> rows that wrote it
    vrun_error,       \* viewshed run(): the error it re-raised
    lookangle_raw,    \* classify_look_angle(): what calc_lookangle returned
    look_class,       \* classify_look_angle(): its result
    class_pc,         \* classify_look_angle(): position in the call
    call_args,        \* arguments of the function a behaviour calls
    call_result       \* what that call returned, or NoResult before it

mosaic_vars == <<vrt_sources_df, full_profile, zero_read_raises, block_size,
                 task_state, block_files, max_workers, merge_pc, run_error,
                 merged_tif>>

comp_vars == <<turbine, obstruction_interval_m, obstruction_heights, height_idx,
               viewshed_log, obst_height_array, vs_pc>>

bin_vars == <<fov_df, distance_array, distance_bin_array, bin_pc>>

lookup_vars == <<lookangle_array, fov_pct, lookup_pc>>

wind_vars == <<winddir_cols, direction_array, wd_idx, weights, fov_pct_arrays,
               fov_pct_weighted>>

check_vars == <<turbines_df, max_distance_km, check_pc>>

run_vars == <<fov_columns, oracle_covers, vrun_pc, vtask_state, out_files, vrun_error>>

class_vars == <<lookangle_raw, look_class, class_pc, call_args, call_result>>

vars == <<mode, mosaic_vars, comp_vars, bin_vars, lookup_vars, wind_vars, check_vars,
          run_vars, class_vars>>

----------------------------------------------------------------------------
(* Bounds *)

MaxDim == 3
MaxSources == 2
MaxBlockSize == 2
MaxWorkers == 2
MaxRotor == 2
MaxHub == 1
MaxInterval == 2
NumPixels == 2
MaxRows == 3
MaxDistance == 4
MaxCols == 3
MaxWeight == 2
MaxDistanceKm == 3
MaxTurbines == 2

----------------------------------------------------------------------------
(* Generic helpers *)

Min(a, b) == IF a <= b THEN a ELSE b
Max(a, b) == IF a >= b THEN a ELSE b

NoFile == [exists |-> FALSE]

EmptyFn == [x \in {} |-> 0]

Cells(height, width) == (0 .. height - 1) \X (0 .. width - 1)

RECURSIVE SumSeq(_)
SumSeq(s) == IF s = <<>> THEN 0 ELSE Head(s) + SumSeq(Tail(s))

\* The parts of the state an entry point does not use stay as they are here.
IdleMosaic ==
    /\ vrt_sources_df = <<>> /\ full_profile = [width |-> 0, height |-> 0]
    /\ zero_read_raises = FALSE /\ block_size = 0 /\ task_state = EmptyFn
    /\ block_files = EmptyFn /\ max_workers = 0 /\ merge_pc = "idle"
    /\ run_error = <<>> /\ merged_tif = NoFile

IdleComposite ==
    /\ turbine = [gid |-> 0, rd_m |-> 0, hh_m |-> 0, freq_winddir |-> <<>>]
    /\ obstruction_interval_m = 0 /\ obstruction_heights = <<>>
    /\ height_idx = 0 /\ viewshed_log = <<>> /\ obst_height_array = <<>>
    /\ vs_pc = "idle"

IdleBin ==
    /\ fov_df = <<>> /\ distance_array = <<>> /\ distance_bin_array = <<>>
    /\ bin_pc = "idle"

IdleLookup ==
    /\ lookangle_array = <<>> /\ fov_pct = [ok |-> FALSE] /\ lookup_pc = "idle"

IdleWind ==
    /\ winddir_cols = <<>> /\ direction_array = <<>> /\ wd_idx = 0
    /\ weights = <<>> /\ fov_pct_arrays = <<>> /\ fov_pct_weighted = NoFile

IdleCheck == turbines_df = <<>> /\ max_distance_km = 0 /\ check_pc = "idle"

IdleRun ==
    /\ fov_columns = EmptyFn /\ oracle_covers = <<>> /\ vrun_pc = "idle"
    /\ vtask_state = <<>> /\ out_files = EmptyFn /\ vrun_error = <<>>

NoResult == [done |-> FALSE]

Returned(value) == [done |-> TRUE, value |-> value]

IdleCall == call_args = <<>> /\ call_result = NoResult

IdleClassify ==
    /\ lookangle_raw = <<>> /\ look_class = [ok |-> FALSE] /\ class_pc = "idle"
    /\ IdleCall

----------------------------------------------------------------------------
(* Source rasters and the VRT built over them *)

\* A per-turbine raster file: position-dependent pixel values.
SourceFile(height, width) ==
    [height |-> height, width |-> width,
     data |-> [p \in Cells(height, width) |-> 1 + p[1] * width + p[2]]]

\* read_vrt_sources: bounds = [xOff, yOff, xOff + xSize, yOff + ySize]
VrtSource(xOff, yOff, xSize, ySize) ==
    [bounds |-> <<xOff, yOff, xOff + xSize, yOff + ySize>>,
     src_file |-> SourceFile(ySize, xSize)]

SourceChoices ==
    {VrtSource(x, y, w, h) : x \in 0 .. MaxDim - 1, y \in 0 .. MaxDim - 1,
                             w \in 1 .. MaxDim, h \in 1 .. MaxDim}

SourceKey(s) ==
    LET K == MaxDim + 1
    IN  ((s.bounds[2] * K + s.bounds[1]) * K + s.bounds[4]) * K + s.bounds[3]

\* gdal.BuildVRT: the VRT extent is the union of the source extents, so the
\* smallest offsets are 0 and the size reaches the largest far edge.
VrtExtentOk(srcs) ==
    /\ \E i \in DOMAIN srcs : srcs[i].bounds[1] = 0
    /\ \E i \in DOMAIN srcs : srcs[i].bounds[2] = 0
    /\ \A i \in DOMAIN srcs : srcs[i].bounds[3] <= MaxDim /\ srcs[i].bounds[4] <= MaxDim

VrtProfile(srcs) ==
    [width  |-> CHOOSE w \in 1 .. MaxDim :
                    /\ \A i \in DOMAIN srcs : srcs[i].bounds[3] <= w
                    /\ \E i \in DOMAIN srcs : srcs[i].bounds[3] = w,
     height |-> CHOOSE h \in 1 .. MaxDim :
                    /\ \A i \in DOMAIN srcs : srcs[i].bounds[4] <= h
                    /\ \E i \in DOMAIN srcs : srcs[i].bounds[4] = h]

\* The indexes considered: 1 .. MaxSources sources listed in a fixed order
\* (the sum mosaic_block builds does not depend on the order of the index).
SourceIndexes ==
    {srcs \in UNION {[1 .. n -> SourceChoices] : n \in 1 .. MaxSources} :
        /\ VrtExtentOk(srcs)
        /\ \A i \in 1 .. Len(srcs) - 1 : SourceKey(srcs[i]) <= SourceKey(srcs[i + 1])}

----------------------------------------------------------------------------
(* raster.mosaic_block *)

\* shapely intersects() of two boxes: closed rectangles, touching counts.
BoxIntersects(a, b) ==
    /\ a[1] <= b[3] /\ b[1] <= a[3]
    /\ a[2] <= b[4] /\ b[2] <= a[4]

\* One iteration of the loop over src_files_in_block: the overlap of the
\* source with the block window, as a window of the source (src_window) and
\* as a window of the block (add_window), and the += into block_array.
SrcWindow(src, block_bounds) ==
    LET sb == src.bounds
        left == Max(sb[1], block_bounds[1])
        top == Max(sb[2], block_bounds[2])
        right == Min(sb[3], block_bounds[3])
        bottom == Min(sb[4], block_bounds[4])
    IN  [col_off |-> left - sb[1], row_off |-> top - sb[2],
         width |-> right - left, height |-> bottom - top]

AddWindow(src, block_bounds) ==
    LET sb == src.bounds
        left == Max(sb[1], block_bounds[1])
        top == Max(sb[2], block_bounds[2])
    IN  [col_off |-> left - block_bounds[1], row_off |-> top - block_bounds[2]]

ReadWindow(file, window) ==
    [p \in Cells(window.height, window.width) |->
        file.data[<<window.row_off + p[1], window.col_off + p[2]>>]]

AddOverwrite(block_array, src, block_bounds) ==
    LET src_window == SrcWindow(src, block_bounds)
        src_array == ReadWindow(src.src_file, src_window)
        add_window == AddWindow(src, block_bounds)
        row_start == add_window.row_off
        col_start == add_window.col_off
    IN  [p \in DOMAIN block_array |->
            IF <<p[1] - row_start, p[2] - col_start>> \in DOMAIN src_array
            THEN src_array[<<p[1] - row_start, p[2] - col_start>>]
            ELSE block_array[p]]

AddSource(block_array, src, block_bounds) ==
    LET src_window == SrcWindow(src, block_bounds)
        src_array == ReadWindow(src.src_file, src_window)
        add_window == AddWindow(src, block_bounds)
        row_start == add_window.row_off
        col_start == add_window.col_off
    IN  [p \in DOMAIN block_array |->
            IF <<p[1] - row_start, p[2] - col_start>> \in DOMAIN src_array
            THEN block_array[p] + src_array[<<p[1] - row_start, p[2] - col_start>>]
            ELSE block_array[p]]

RECURSIVE AddSources(_, _, _)
AddSources(block_array, srcs, block_bounds) ==
    IF srcs = <<>> THEN block_array
    ELSE AddSources(AddSource(block_array, Head(srcs), block_bounds),
                    Tail(srcs), block_bounds)

\* The bounds of the nominal block, without the extra row.
BlockBoundsNominal(profile, col_offset, row_offset, bsize) ==
    <<col_offset, row_offset,
      Min(col_offset + bsize, profile.width),
      Min(row_offset + bsize, profile.height)>>

BlockBounds(profile, col_offset, row_offset, bsize) ==
    <<col_offset, row_offset,
      Min(col_offset + bsize, profile.width),
      Min(row_offset + bsize, profile.height) + 1>>

\* The raster file mosaic_block writes, or NoFile when it raises.
mosaic_block(sources_df, profile, col_offset, row_offset, bsize, zero_raises) ==
    LET block_bounds == BlockBounds(profile, col_offset, row_offset, bsize)
        width == block_bounds[3] - block_bounds[1]
        height == block_bounds[4] - block_bounds[2]
        in_block == SelectSeq(sources_df,
                              LAMBDA s : BoxIntersects(s.bounds, block_bounds))
        zero_read == \E i \in DOMAIN in_block :
                        \/ SrcWindow(in_block[i], block_bounds).width = 0
                        \/ SrcWindow(in_block[i], block_bounds).height = 0
        block_array == AddSources([p \in Cells(height, width) |-> 0],
                                  in_block, block_bounds)
    IN  IF width < 0 THEN NoFile                 \* np.zeros: negative dimension
        ELSE IF zero_read /\ zero_raises THEN NoFile
        ELSE IF width = 0 \/ height - 1 = 0 THEN NoFile  \* no 0-sized GeoTiff
        ELSE [exists |-> TRUE,
              col_off |-> col_offset, row_off |-> row_offset,
              width |-> width, height |-> height - 1,
              data |-> [p \in Cells(height - 1, width) |-> block_array[p]]]

----------------------------------------------------------------------------
(* Direct calls of mosaic_block on a VRT (as tests/test_raster.py does) *)

InitMosaic ==
    /\ mode = "mosaic_block"
    /\ vrt_sources_df \in SourceIndexes
    /\ full_profile = VrtProfile(vrt_sources_df)
    /\ zero_read_raises \in BOOLEAN
    /\ block_size = 0
    /\ task_state = EmptyFn
    /\ block_files = EmptyFn
    /\ max_workers = 0
    /\ merge_pc = "idle"
    /\ run_error = <<>>
    /\ merged_tif = NoFile
    /\ IdleComposite
    /\ IdleBin
    /\ IdleLookup
    /\ IdleWind
    /\ IdleCheck
    /\ IdleRun
    /\ IdleClassify

\* One call, into a fresh output directory.
MosaicBlockCall ==
    \E row_offset \in 0 .. full_profile.height,
       col_offset \in 0 .. full_profile.width,
       bsize \in 1 .. MaxBlockSize :
        /\ mode = "mosaic_block"
        /\ block_files = EmptyFn
        /\ block_size' = bsize
        /\ block_files' = (<<row_offset, col_offset>> :>
                             mosaic_block(vrt_sources_df, full_profile, col_offset,
                                          row_offset, bsize, zero_read_raises))
        /\ UNCHANGED <<mode, check_vars, run_vars, class_vars, comp_vars, bin_vars, lookup_vars, wind_vars, vrt_sources_df, full_profile, zero_read_raises,
                       task_state, max_workers, merge_pc, run_error, merged_tif>>

NextMosaic == MosaicBlockCall

SpecMosaic == InitMosaic /\ [][NextMosaic]_vars

----------------------------------------------------------------------------
(* C1: what a written block holds *)

\* The value of a source at mosaic pixel (row, col), 0 outside its extent.
SourceValueAt(src, row, col) ==
    IF /\ src.bounds[1] <= col /\ col < src.bounds[3]
       /\ src.bounds[2] <= row /\ row < src.bounds[4]
    THEN src.src_file.data[<<row - src.bounds[2], col - src.bounds[1]>>]
    ELSE 0

CoveringSources(srcs, row, col) ==
    {i \in DOMAIN srcs :
        /\ srcs[i].bounds[1] <= col /\ col < srcs[i].bounds[3]
        /\ srcs[i].bounds[2] <= row /\ row < srcs[i].bounds[4]}

SumOfSourcesAt(srcs, row, col) ==
    SumSeq([i \in DOMAIN srcs |-> SourceValueAt(srcs[i], row, col)])

WrittenBlocks == {k \in DOMAIN block_files : block_files[k].exists}

\* C1: every pixel of a block raster written by mosaic_block is the sum of the
\* values, at that mosaic pixel, of all indexed sources covering it, and 0
\* where no source covers it.
C1_BlockIsSumOfSources ==
    \A k \in WrittenBlocks :
        LET blk == block_files[k]
        IN  \A p \in DOMAIN blk.data :
                /\ blk.data[p] = SumOfSourcesAt(vrt_sources_df, k[1] + p[1], k[2] + p[2])
                /\ (CoveringSources(vrt_sources_df, k[1] + p[1], k[2] + p[2]) = {}
                        => blk.data[p] = 0)

\* A written block with a pixel covered by two sources and a pixel covered by none.
C1_Witness ==
    /\ mode = "mosaic_block"
    /\ \E k \in WrittenBlocks :
        LET blk == block_files[k]
        IN  /\ \E p \in DOMAIN blk.data :
                    Cardinality(CoveringSources(vrt_sources_df,
                                                k[1] + p[1], k[2] + p[2])) >= 2
            /\ \E p \in DOMAIN blk.data :
                    CoveringSources(vrt_sources_df, k[1] + p[1], k[2] + p[2]) = {}

----------------------------------------------------------------------------
(* cli/merge.py run(): mosaic every block in a process pool, then merge *)

\* np.arange(0, stop, step) for integers, as a sequence
Arange(stop, step) ==
    LET n == (stop + step - 1) \div step
    IN  [i \in 1 .. n |-> (i - 1) * step]

\* list(product(row_offsets, col_offsets)): row-major pairs
Offsets(profile, bsize) ==
    LET row_offsets == Arange(profile.height + 1, bsize)
        col_offsets == Arange(profile.width + 1, bsize)
        nc == Len(col_offsets)
    IN  [i \in 1 .. Len(row_offsets) * nc |->
            <<row_offsets[((i - 1) \div nc) + 1], col_offsets[((i - 1) % nc) + 1]>>]

SeqRange(s) == {s[i] : i \in DOMAIN s}

\* osgeo_utils gdal_merge: the output covers the bounding box of the input
\* files, starts as zeros, and each file is copied over it in listing order.
RECURSIVE CopyFiles(_, _, _, _)
CopyFiles(data, files, listing, origin) ==
    IF listing = <<>> THEN data
    ELSE LET f == files[Head(listing)]
             copied == [p \in DOMAIN data |->
                          LET q == <<p[1] + origin[1] - f.row_off,
                                     p[2] + origin[2] - f.col_off>>
                          IN  IF q \in DOMAIN f.data THEN f.data[q] ELSE data[p]]
         IN  CopyFiles(copied, files, Tail(listing), origin)

SetMin(S) == CHOOSE x \in S : \A y \in S : x <= y
SetMax(S) == CHOOSE x \in S : \A y \in S : x >= y

\* The output placed at the first listed file's corner instead of the corner
\* of the bounding box.
merge_tifs_from_first(files, listing) ==
    LET ks == SeqRange(listing)
        top == files[listing[1]].row_off
        left == files[listing[1]].col_off
        bottom == SetMax({files[k].row_off + files[k].height : k \in ks})
        right == SetMax({files[k].col_off + files[k].width : k \in ks})
    IN  [exists |-> TRUE, row_off |-> top, col_off |-> left,
         height |-> bottom - top, width |-> right - left,
         data |-> CopyFiles([p \in Cells(bottom - top, right - left) |-> 0],
                            files, listing, <<top, left>>)]

merge_tifs(files, listing) ==
    LET ks == SeqRange(listing)
        top == SetMin({files[k].row_off : k \in ks})
        left == SetMin({files[k].col_off : k \in ks})
        bottom == SetMax({files[k].row_off + files[k].height : k \in ks})
        right == SetMax({files[k].col_off + files[k].width : k \in ks})
    IN  [exists |-> TRUE, row_off |-> top, col_off |-> left,
         height |-> bottom - top, width |-> right - left,
         data |-> CopyFiles([p \in Cells(bottom - top, right - left) |-> 0],
                            files, listing, <<top, left>>)]

\* Every order of the members of S.
RECURSIVE Orderings(_)
Orderings(S) ==
    IF S = {} THEN {<<>>}
    ELSE UNION {{<<x>> \o t : t \in Orderings(S \ {x})} : x \in S}

\* rglob("block*.tif"): the block files in the order the directory lists
\* them, which is any order (nothing sorts the listing).
Listings(S) == Orderings(S)

\* The viewsheds directory of one viewsheds run: every per-turbine raster has
\* the shape calc_viewshed_shape() gives for that run's distance and resolution.
ViewshedIndexes ==
    {srcs \in SourceIndexes :
        \A i \in DOMAIN srcs : /\ srcs[i].src_file.height = srcs[1].src_file.height
                               /\ srcs[i].src_file.width = srcs[1].src_file.width}

InitMerge ==
    /\ mode = "merge"
    /\ vrt_sources_df \in ViewshedIndexes
    /\ full_profile = VrtProfile(vrt_sources_df)
    /\ zero_read_raises \in BOOLEAN
    /\ block_size \in 1 .. MaxBlockSize
    /\ max_workers \in 1 .. MaxWorkers
    /\ task_state = EmptyFn
    /\ block_files = EmptyFn
    /\ merge_pc = "start"
    /\ run_error = <<>>
    /\ merged_tif = NoFile
    /\ IdleComposite
    /\ IdleBin
    /\ IdleLookup
    /\ IdleWind
    /\ IdleCheck
    /\ IdleRun
    /\ IdleClassify

\* One turn of the submit loop: the next offset goes to the pool, whose
\* workers run the offsets submitted before it meanwhile. After the last
\* offset run() is at the end of the "with" block.
SubmitBlock ==
    /\ mode = "merge" /\ merge_pc = "start"
    /\ LET offs == Offsets(full_profile, block_size)
           i == Cardinality(DOMAIN task_state) + 1
       IN  /\ task_state' = (offs[i] :> "queued") @@ task_state
           /\ merge_pc' = IF i = Len(offs) THEN "pool" ELSE "start"
    /\ UNCHANGED <<mode, check_vars, run_vars, class_vars, comp_vars, bin_vars, lookup_vars, wind_vars, vrt_sources_df, full_profile, zero_read_raises, block_size,
                   block_files, max_workers, run_error, merged_tif>>

TasksIn(st) == {k \in DOMAIN task_state : task_state[k] = st}

\* The pool hands queued work to a free worker in submission order.
StartBlockTask ==
    /\ mode = "merge" /\ merge_pc \in {"start", "pool"}
    /\ Cardinality(TasksIn("running")) < max_workers
    /\ LET offs == Offsets(full_profile, block_size)
       IN  \E i \in DOMAIN offs :
            /\ offs[i] \in TasksIn("queued")
            /\ \A j \in 1 .. i - 1 : task_state[offs[j]] # "queued"
            /\ task_state' = [task_state EXCEPT ![offs[i]] = "running"]
    /\ UNCHANGED <<mode, check_vars, run_vars, class_vars, comp_vars, bin_vars, lookup_vars, wind_vars, vrt_sources_df, full_profile, zero_read_raises, block_size,
                   block_files, max_workers, merge_pc, run_error, merged_tif>>

\* A worker runs raster.mosaic_block to its end: the block file, or an exception.
FinishBlockTask ==
    /\ mode = "merge" /\ merge_pc \in {"start", "pool"}
    /\ \E k \in TasksIn("running") :
        LET out == mosaic_block(vrt_sources_df, full_profile, k[2], k[1],
                                block_size, zero_read_raises)
        IN  /\ task_state' = [task_state EXCEPT
                                ![k] = IF out.exists THEN "ok" ELSE "failed"]
            /\ block_files' = IF out.exists THEN (k :> out) @@ block_files
                              ELSE block_files
    /\ UNCHANGED <<mode, check_vars, run_vars, class_vars, comp_vars, bin_vars, lookup_vars, wind_vars, vrt_sources_df, full_profile, zero_read_raises, block_size,
                   max_workers, merge_pc, run_error, merged_tif>>

\* Leaving the "with ProcessPoolExecutor" block waits for every task.
PoolExit ==
    /\ mode = "merge" /\ merge_pc = "pool"
    /\ \A k \in DOMAIN task_state : task_state[k] \in {"ok", "failed"}
    /\ merge_pc' = "collect"
    /\ UNCHANGED <<mode, check_vars, run_vars, class_vars, comp_vars, bin_vars, lookup_vars, wind_vars, vrt_sources_df, full_profile, zero_read_raises, block_size,
                   task_state, block_files, max_workers, run_error, merged_tif>>

\* The as_completed loop: the first failed future it meets re-raises, naming
\* that block's offsets; the futures are all done, in no particular order.
CollectRaises ==
    /\ mode = "merge" /\ merge_pc = "collect"
    /\ \E k \in TasksIn("failed") :
        /\ run_error' = k
        /\ merge_pc' = "raised"
    /\ UNCHANGED <<mode, check_vars, run_vars, class_vars, comp_vars, bin_vars, lookup_vars, wind_vars, vrt_sources_df, full_profile, zero_read_raises, block_size,
                   task_state, block_files, max_workers, merged_tif>>

\* merge_tifs run over whatever blocks exist, whether or not a future failed.
MergeBlocksAnyway ==
    /\ mode = "merge" /\ merge_pc = "collect"
    /\ DOMAIN block_files # {}
    /\ \E listing \in Listings(DOMAIN block_files) :
        merged_tif' = merge_tifs(block_files, listing)
    /\ merge_pc' = "done"
    /\ UNCHANGED <<mode, check_vars, run_vars, class_vars, comp_vars, bin_vars, lookup_vars, wind_vars, vrt_sources_df, full_profile, zero_read_raises, block_size,
                   task_state, block_files, max_workers, run_error>>

\* No future failed: raster.merge_tifs over the blocks directory.
MergeBlocks ==
    /\ mode = "merge" /\ merge_pc = "collect"
    /\ TasksIn("failed") = {}
    /\ \E listing \in Listings(DOMAIN block_files) :
        merged_tif' = merge_tifs(block_files, listing)
    /\ merge_pc' = "done"
    /\ UNCHANGED <<mode, check_vars, run_vars, class_vars, comp_vars, bin_vars, lookup_vars, wind_vars, vrt_sources_df, full_profile, zero_read_raises, block_size,
                   task_state, block_files, max_workers, run_error>>

NextMerge ==
    \/ SubmitBlock
    \/ StartBlockTask
    \/ FinishBlockTask
    \/ PoolExit
    \/ CollectRaises
    \/ MergeBlocks

SpecMerge == InitMerge /\ [][NextMerge]_vars

\* Two bit-identical per-turbine rasters at the same place.
TwoIdenticalSources ==
    /\ Len(vrt_sources_df) = 2
    /\ vrt_sources_df[1] = vrt_sources_df[2]

\* C2: the merge pipeline on two bit-identical co-located rasters ends with a
\* merged raster of the inputs' extent whose every pixel is twice the input's.
C2_MergeOfTwoIdenticalIsDouble ==
    (mode = "merge" /\ TwoIdenticalSources /\ merge_pc \in {"done", "raised"}) =>
        /\ merge_pc = "done"
        /\ merged_tif.exists
        /\ merged_tif.row_off = 0 /\ merged_tif.col_off = 0
        /\ merged_tif.height = vrt_sources_df[1].src_file.height
        /\ merged_tif.width = vrt_sources_df[1].src_file.width
        /\ \A p \in DOMAIN vrt_sources_df[1].src_file.data :
                merged_tif.data[p] = 2 * vrt_sources_df[1].src_file.data[p]

\* The same end state reached when no dimension is a multiple of block_size.
C2_HoldsOffMultiples ==
    (/\ mode = "merge" /\ TwoIdenticalSources /\ merge_pc \in {"done", "raised"}
     /\ full_profile.height % block_size # 0
     /\ full_profile.width % block_size # 0) =>
        /\ merge_pc = "done"
        /\ merged_tif.exists
        /\ merged_tif.row_off = 0 /\ merged_tif.col_off = 0
        /\ merged_tif.height = full_profile.height
        /\ merged_tif.width = full_profile.width
        /\ \A p \in DOMAIN vrt_sources_df[1].src_file.data :
                merged_tif.data[p] = 2 * vrt_sources_df[1].src_file.data[p]

----------------------------------------------------------------------------
(* visibility.get_obstruction_heights and the height loop of viewshed() *)

NOT_VISIBLE_VALUE == 58368

Pixels == 1 .. NumPixels

\* (the ladder without the "+ interval" of the stop value)
get_obstruction_heights_short(rotor_diameter, hub_height, obstruction_interval) ==
    LET max_tip_height_x2 == 2 * hub_height + rotor_diameter
        step_x2 == 2 * obstruction_interval
        n == (max_tip_height_x2 + step_x2 - 1) \div step_x2
    IN  [i \in 1 .. n |-> (i - 1) * obstruction_interval]

\* np.arange(0, max_tip_height + interval, interval) with
\* max_tip_height = hub_height + rotor_diameter * 0.5: its length is
\* ceil((max_tip_height + interval) / interval), its i-th element i * interval.
\* Twice the tip height is computed so that odd rotor diameters stay exact.
get_obstruction_heights(rotor_diameter, hub_height, obstruction_interval) ==
    LET max_tip_height_x2 == 2 * hub_height + rotor_diameter
        stop_x2 == max_tip_height_x2 + 2 * obstruction_interval
        step_x2 == 2 * obstruction_interval
        n == (stop_x2 + step_x2 - 1) \div step_x2
    IN  [i \in 1 .. n |-> (i - 1) * obstruction_interval]

\* np.where(viewshed_array == 1, obstruction_height, NOT_VISIBLE_VALUE)
VisibleHeightArray(viewshed_array, obstruction_height) ==
    [p \in DOMAIN viewshed_array |->
        IF viewshed_array[p] = 1 THEN obstruction_height ELSE NOT_VISIBLE_VALUE]

\* np.minimum(a, b), elementwise
NpMinimum(a, b) == [p \in DOMAIN a |-> Min(a[p], b[p])]

NpMaximum(a, b) == [p \in DOMAIN a |-> Max(a[p], b[p])]

KeepLatest(visible_height_array, prior) == visible_height_array

KeepFirstVisible(visible_height_array, prior) ==
    [p \in DOMAIN prior |->
        IF prior[p] = NOT_VISIBLE_VALUE THEN visible_height_array[p] ELSE prior[p]]

\* obst_height_array = np.minimum(visible_height_array, obst_height_array)
FoldVisible(visible_height_array, prior) == NpMinimum(visible_height_array, prior)

\* One pass of the loop body over a given height and oracle result.
HeightPass(prior, viewshed_array, obstruction_height) ==
    FoldVisible(VisibleHeightArray(viewshed_array, obstruction_height), prior)

InitialComposite == [p \in Pixels |-> NOT_VISIBLE_VALUE]

\* The loop of viewshed() run over the ladder positions listed in order.
RECURSIVE CompositeOver(_, _, _, _)
CompositeOver(prior, order, heights, results) ==
    IF order = <<>> THEN prior
    ELSE CompositeOver(HeightPass(prior, results[Head(order)], heights[Head(order)]),
                       Tail(order), heights, results)

InitComposite ==
    /\ mode = "viewshed_heights"
    /\ turbine \in [gid : {1}, rd_m : 0 .. MaxRotor, hh_m : 0 .. MaxHub,
                  freq_winddir : {<<>>}]
    /\ obstruction_interval_m \in 1 .. MaxInterval
    /\ obstruction_heights = <<>>
    /\ height_idx = 0
    /\ viewshed_log = <<>>
    /\ obst_height_array = <<>>
    /\ vs_pc = "start"
    /\ IdleMosaic
    /\ IdleBin
    /\ IdleLookup
    /\ IdleWind
    /\ IdleCheck
    /\ IdleRun
    /\ IdleClassify

\* viewshed() up to the height loop: the sentinel-filled composite and the ladder.
BeginViewshed ==
    /\ mode \in {"viewshed_heights", "viewshed"} /\ vs_pc = "start"
    /\ obst_height_array' = InitialComposite
    /\ obstruction_heights' = get_obstruction_heights(turbine.rd_m, turbine.hh_m,
                                                      obstruction_interval_m)
    /\ height_idx' = 1
    /\ vs_pc' = "heights"
    /\ UNCHANGED <<mode, check_vars, run_vars, class_vars, mosaic_vars, bin_vars, lookup_vars, wind_vars, turbine, obstruction_interval_m, viewshed_log>>

\* One iteration: the oracle answers with a raster of the expected shape.
HeightIteration ==
    /\ mode \in {"viewshed_heights", "viewshed"} /\ vs_pc = "heights"
    /\ height_idx <= Len(obstruction_heights)
    /\ \E viewshed_array \in [Pixels -> {0, 1}] :
        /\ obst_height_array' = HeightPass(obst_height_array, viewshed_array,
                                           obstruction_heights[height_idx])
        /\ viewshed_log' = Append(viewshed_log, viewshed_array)
    /\ height_idx' = height_idx + 1
    /\ UNCHANGED <<mode, check_vars, run_vars, class_vars, mosaic_vars, bin_vars, lookup_vars, wind_vars, turbine, obstruction_interval_m,
                   obstruction_heights, vs_pc>>

\* A raster the oracle returns when the elevation source does not cover the
\* whole window: it has another shape.
ShortRaster == [p \in 1 .. NumPixels - 1 |-> 1]

\* (a loop that steps over a height whose raster has another shape)
HeightShapeSkipped ==
    /\ mode \in {"viewshed_heights", "viewshed"} /\ vs_pc = "heights"
    /\ height_idx <= Len(obstruction_heights)
    /\ viewshed_log' = Append(viewshed_log, ShortRaster)
    /\ height_idx' = height_idx + 1
    /\ UNCHANGED <<mode, check_vars, run_vars, class_vars, mosaic_vars, bin_vars,
                   lookup_vars, wind_vars, turbine, obstruction_interval_m,
                   obstruction_heights, vs_pc, obst_height_array>>

\* One iteration: the oracle's raster has another shape, the task raises.
HeightShapeMismatch ==
    /\ mode \in {"viewshed_heights", "viewshed"} /\ vs_pc = "heights"
    /\ height_idx <= Len(obstruction_heights)
    /\ viewshed_log' = Append(viewshed_log, ShortRaster)
    /\ vs_pc' = "raised"
    /\ UNCHANGED <<mode, check_vars, run_vars, class_vars, mosaic_vars, bin_vars, lookup_vars, wind_vars, turbine, obstruction_interval_m,
                   obstruction_heights, height_idx, obst_height_array>>

\* The ladder is exhausted: the composite goes on to the wind-direction loop.
EndHeightLoop ==
    /\ mode \in {"viewshed_heights", "viewshed"} /\ vs_pc = "heights"
    /\ height_idx > Len(obstruction_heights)
    /\ vs_pc' = "winddirs"
    /\ UNCHANGED <<mode, check_vars, run_vars, class_vars, mosaic_vars, bin_vars, lookup_vars, wind_vars, turbine, obstruction_interval_m,
                   obstruction_heights, height_idx, viewshed_log, obst_height_array>>

NextComposite ==
    \/ BeginViewshed
    \/ HeightIteration
    \/ HeightShapeMismatch
    \/ EndHeightLoop

SpecComposite == InitComposite /\ [][NextComposite]_vars

\* Ladder positions at which the oracle reported pixel p visible.
VisibleAt(p) == {i \in DOMAIN viewshed_log : viewshed_log[i][p] = 1}

\* C3: after the whole ladder, each pixel of the composite is the least ladder
\* height at which the oracle reported it visible, and the sentinel exactly
\* when the oracle reported it visible at no height.
C3_CompositeIsMinVisibleHeight ==
    (mode = "viewshed_heights" /\ vs_pc = "winddirs") =>
        \A p \in Pixels :
            /\ VisibleAt(p) # {} =>
                 obst_height_array[p] =
                    SetMin({obstruction_heights[i] : i \in VisibleAt(p)})
            /\ (obst_height_array[p] = NOT_VISIBLE_VALUE) <=> (VisibleAt(p) = {})

\* The loop has ended with one pixel seen first at a height above the lowest and
\* again higher up, and another pixel never seen.
C3_Witness ==
    /\ mode = "viewshed_heights" /\ vs_pc = "winddirs"
    /\ \E p \in Pixels : /\ Cardinality(VisibleAt(p)) >= 2
                         /\ 1 \notin VisibleAt(p)
    /\ \E p \in Pixels : VisibleAt(p) = {}

RECURSIVE AscendingSeq(_)
AscendingSeq(S) ==
    IF S = {} THEN <<>>
    ELSE LET m == SetMin(S) IN <<m>> \o AscendingSeq(S \ {m})

\* The composite viewshed() computes from the ladder positions in S alone,
\* taken in ascending order, under the same oracle.
CompositeOfLadder(S) ==
    CompositeOver(InitialComposite, AscendingSeq(S), obstruction_heights, viewshed_log)

LoopEnded == mode = "viewshed_heights" /\ vs_pc = "winddirs"

\* C4: the composite of a ladder is, at every pixel, at most the composite of
\* any ladder made of some of its heights (the sentinel is the largest value).
C4_MoreSamplesNeverRaise ==
    LoopEnded =>
        \A S \in SUBSET DOMAIN viewshed_log :
            \A p \in Pixels : obst_height_array[p] <= CompositeOfLadder(S)[p]

\* A pixel whose composite is strictly lower with the whole ladder than with a
\* two-height part of it that already saw the pixel.
C4_Witness ==
    /\ LoopEnded
    /\ \E S \in SUBSET DOMAIN viewshed_log :
        /\ Cardinality(S) >= 2
        /\ \E p \in Pixels :
            /\ obst_height_array[p] < CompositeOfLadder(S)[p]
            /\ CompositeOfLadder(S)[p] # NOT_VISIBLE_VALUE

\* C5: processing the ladder in any order, or reducing two parts of it
\* separately and combining them with the minimum, gives the same composite.
C5_OrderDoesNotMatter ==
    LoopEnded =>
        /\ \A order \in Orderings(DOMAIN viewshed_log) :
                CompositeOver(InitialComposite, order, obstruction_heights,
                              viewshed_log) = obst_height_array
        /\ \A S \in SUBSET DOMAIN viewshed_log :
                NpMinimum(CompositeOfLadder(S),
                          CompositeOfLadder(DOMAIN viewshed_log \ S)) = obst_height_array

\* A ladder of at least three heights where a pixel is visible at two heights and
\* not at a third, so that the orders differ in what they meet first.
C5_Witness ==
    /\ LoopEnded
    /\ Len(viewshed_log) >= 3
    /\ \E p \in Pixels : /\ Cardinality(VisibleAt(p)) >= 2
                         /\ VisibleAt(p) # DOMAIN viewshed_log

LadderComputed == mode = "viewshed_heights" /\ vs_pc # "start"

MaxTipHeightX2 == 2 * turbine.hh_m + turbine.rd_m

LadderShape ==
    /\ Len(obstruction_heights) >= 1
    /\ obstruction_heights[1] = 0
    /\ \A i \in 1 .. Len(obstruction_heights) - 1 :
            obstruction_heights[i + 1] = obstruction_heights[i] + obstruction_interval_m

\* C6 as stated: the ladder starts at 0, rises by the interval, ends at the max
\* tip height, and contains both 0 and the max tip height.
C6_LadderEndsAtMaxTip ==
    LadderComputed =>
        /\ LadderShape
        /\ 2 * obstruction_heights[Len(obstruction_heights)] = MaxTipHeightX2
        /\ \E i \in DOMAIN obstruction_heights :
                2 * obstruction_heights[i] = MaxTipHeightX2

\* C6 amended: the ladder starts at 0, rises by the interval, and ends at the
\* first multiple of the interval that is >= the max tip height; it contains the
\* max tip height exactly when that is a multiple of the interval.
C6_LadderReachesMaxTip ==
    LadderComputed =>
        LET last == obstruction_heights[Len(obstruction_heights)]
        IN  /\ LadderShape
            /\ 2 * last >= MaxTipHeightX2
            /\ 2 * (last - obstruction_interval_m) < MaxTipHeightX2
            /\ (\E i \in DOMAIN obstruction_heights :
                    2 * obstruction_heights[i] = MaxTipHeightX2)
                <=> (MaxTipHeightX2 % (2 * obstruction_interval_m) = 0)

\* A ladder of several heights that overshoots a max tip height it does not contain.
C6_Witness ==
    /\ LadderComputed
    /\ Len(obstruction_heights) >= 3
    /\ 2 * obstruction_heights[Len(obstruction_heights)] > MaxTipHeightX2

----------------------------------------------------------------------------
(* visibility.bin_distances *)

Abs(x) == IF x < 0 THEN -x ELSE x

FovRow(rd, hh, oh, dist, rot, pct) ==
    [rotor_diameter_m |-> rd, hub_height_m |-> hh, obstruction_height_m |-> oh,
     distance_m |-> dist, rotation |-> rot, pct_fov |-> pct]

\* pandas Series.unique(): the distinct values in order of first appearance
RECURSIVE Unique(_)
Unique(s) ==
    IF s = <<>> THEN <<>>
    ELSE LET front == Unique(SubSeq(s, 1, Len(s) - 1))
             last == s[Len(s)]
         IN  IF \E i \in DOMAIN front : front[i] = last THEN front
             ELSE Append(front, last)

DistanceValues(df) == Unique([i \in DOMAIN df |-> df[i].distance_m])

\* numpy argmin along the level axis: the first index holding the least value
ArgMinLast(values) ==
    CHOOSE i \in DOMAIN values :
        /\ \A j \in DOMAIN values : values[i] <= values[j]
        /\ \A j \in DOMAIN values : j > i => values[j] > values[i]

ArgMin(values) ==
    CHOOSE i \in DOMAIN values :
        /\ \A j \in DOMAIN values : values[i] <= values[j]
        /\ \A j \in 1 .. i - 1 : values[j] > values[i]

\* (the difference without np.abs)
LevelGapSigned(d, level) == d - level

\* np.abs(distance_array - distance_values[:, None, None]), for one pixel and level
LevelGap(d, level) == Abs(d - level)

bin_distances(df, dist_array) ==
    LET distance_values == DistanceValues(df)
    IN  [p \in DOMAIN dist_array |->
            distance_values[ArgMin([i \in DOMAIN distance_values |->
                                      LevelGap(dist_array[p], distance_values[i])])]]

DistanceColumns == UNION {[1 .. n -> 0 .. MaxDistance] : n \in 1 .. MaxRows}

InitBin ==
    /\ mode = "bin_distances"
    /\ \E col \in DistanceColumns :
        fov_df = [i \in DOMAIN col |-> FovRow(0, 0, 0, col[i], "FRONT", 0)]
    /\ distance_array \in [Pixels -> 0 .. MaxDistance]
    /\ distance_bin_array = <<>>
    /\ bin_pc = "start"
    /\ IdleMosaic
    /\ IdleComposite
    /\ IdleLookup
    /\ IdleWind
    /\ IdleCheck
    /\ IdleRun
    /\ IdleClassify

BinDistances ==
    /\ mode = "bin_distances" /\ bin_pc = "start"
    /\ distance_bin_array' = bin_distances(fov_df, distance_array)
    /\ bin_pc' = "done"
    /\ UNCHANGED <<mode, check_vars, run_vars, class_vars, mosaic_vars, comp_vars, lookup_vars, wind_vars, fov_df,
                   distance_array>>

NextBin == BinDistances

SpecBin == InitBin /\ [][NextBin]_vars

Binned == mode = "bin_distances" /\ bin_pc = "done"

\* Position of a level among the table's distinct levels (order of appearance).
LevelIndex(level) ==
    CHOOSE i \in DOMAIN DistanceValues(fov_df) : DistanceValues(fov_df)[i] = level

LevelSet == {fov_df[i].distance_m : i \in DOMAIN fov_df}

\* C7: every pixel gets exactly one of the table's distinct levels, one that is
\* nearest to the pixel's distance; of two equally near levels it gets the one
\* with the lower index among the table's distinct levels.
C7_NearestLevelLowerIndexOnTies ==
    Binned =>
        \A p \in Pixels :
            LET b == distance_bin_array[p]
                d == distance_array[p]
            IN  /\ b \in LevelSet
                /\ \A l \in LevelSet :
                    /\ Abs(d - b) <= Abs(d - l)
                    /\ (Abs(d - l) = Abs(d - b) /\ l # b)
                            => LevelIndex(b) < LevelIndex(l)

\* A pixel exactly half way between two levels of the table.
C7_Witness ==
    /\ Binned
    /\ \E p \in Pixels : \E l \in LevelSet :
        /\ l # distance_bin_array[p]
        /\ Abs(distance_array[p] - l)
                = Abs(distance_array[p] - distance_bin_array[p])

\* The levels next below and next above a level, if any.
LevelsBelow(l) == {x \in LevelSet : x < l}
LevelsAbove(l) == {x \in LevelSet : x > l}

\* C8 as stated: a pixel at distance d gets level l exactly when d lies above
\* the midpoint to the next lower level and at or below the midpoint to the next
\* higher level (the outer bins unbounded).
C8_MidpointGoesToLowerLevel ==
    Binned =>
        \A p \in Pixels : \A l \in LevelSet :
            LET d == distance_array[p]
            IN  (distance_bin_array[p] = l) <=>
                    /\ LevelsBelow(l) # {} => 2 * d > SetMax(LevelsBelow(l)) + l
                    /\ LevelsAbove(l) # {} => 2 * d <= l + SetMin(LevelsAbove(l))

\* C8 amended: the bin boundaries are the midpoints between adjacent levels; a
\* pixel exactly on a midpoint gets the one of the two levels that appears first
\* in the table's distance column.
C8_MidpointGoesToFirstListedLevel ==
    Binned =>
        \A p \in Pixels : \A l \in LevelSet :
            LET d == distance_array[p]
            IN  (distance_bin_array[p] = l) <=>
                    /\ LevelsBelow(l) # {} =>
                        LET lo == SetMax(LevelsBelow(l))
                        IN  \/ 2 * d > lo + l
                            \/ 2 * d = lo + l /\ LevelIndex(l) < LevelIndex(lo)
                    /\ LevelsAbove(l) # {} =>
                        LET hi == SetMin(LevelsAbove(l))
                        IN  \/ 2 * d < l + hi
                            \/ 2 * d = l + hi /\ LevelIndex(l) < LevelIndex(hi)

\* A table listing a higher level before a lower one, and a pixel on their
\* midpoint that is given the higher level.
C8_Witness ==
    /\ Binned
    /\ \E p \in Pixels :
        LET b == distance_bin_array[p]
        IN  /\ LevelsBelow(b) # {}
            /\ 2 * distance_array[p] = SetMax(LevelsBelow(b)) + b
            /\ LevelIndex(b) < LevelIndex(SetMax(LevelsBelow(b)))

----------------------------------------------------------------------------
(* visibility.lookup_fov_pct *)

\* The missing value a left merge leaves where no table row matches.
NaN == -1

\* fov_df["rotation"].map(TURBINE_ROTATIONS)
RotationClass(rotation) ==
    CASE rotation = "FRONT" -> 1
      [] rotation = "DIAGONAL" -> 2
      [] rotation = "SIDE" -> 3
      [] OTHER -> NaN

\* (the filter on the rotor diameter alone)
FovSubDfByRotorOnly(df, rotor_diameter_m, hub_height_m) ==
    SelectSeq(df, LAMBDA r : r.rotor_diameter_m = rotor_diameter_m)

\* the rows of the table for these turbine dimensions, in table order
FovSubDf(df, rotor_diameter_m, hub_height_m) ==
    SelectSeq(df, LAMBDA r : /\ r.rotor_diameter_m = rotor_diameter_m
                             /\ r.hub_height_m = hub_height_m)

\* obst_height_array != NOT_VISIBLE_VALUE, as the pixels in array order
VisiblePixels(obst) ==
    AscendingSeq({p \in DOMAIN obst : obst[p] # NOT_VISIBLE_VALUE})

JoinRows(sub_df, oh, dist, rot_class) ==
    SelectSeq(sub_df, LAMBDA r : /\ r.obstruction_height_m = oh
                                 /\ r.distance_m = dist
                                 /\ RotationClass(r.rotation) = rot_class)

\* pd.merge(combos_df, fov_sub_df, how="left"): the pct_fov column of the result;
\* every left row in order, once per matching table row, or once with NaN.
RECURSIVE LeftMergePct(_, _, _, _, _)
LeftMergePct(pixels, sub_df, obst, dist_bins, lookangles) ==
    IF pixels = <<>> THEN <<>>
    ELSE LET p == Head(pixels)
             rows == JoinRows(sub_df, obst[p], dist_bins[p], lookangles[p])
             here == IF rows = <<>> THEN <<NaN>>
                     ELSE [i \in DOMAIN rows |-> rows[i].pct_fov]
         IN  here \o LeftMergePct(Tail(pixels), sub_df, obst, dist_bins, lookangles)

\* [ok |-> FALSE] when the assignment of the merged column to the visible
\* pixels raises (the lengths differ).
lookup_fov_pct(df, rotor_diameter_m, hub_height_m, obst, dist_bins, lookangles) ==
    LET fov_sub_df == FovSubDf(df, rotor_diameter_m, hub_height_m)
        visible_pixels == VisiblePixels(obst)
        combo_fov_lkup == LeftMergePct(visible_pixels, fov_sub_df, obst,
                                       dist_bins, lookangles)
    IN  IF Len(combo_fov_lkup) # Len(visible_pixels) THEN [ok |-> FALSE]
        ELSE [ok |-> TRUE,
              data |-> [p \in DOMAIN obst |->
                          IF obst[p] = NOT_VISIBLE_VALUE THEN 0
                          ELSE combo_fov_lkup[CHOOSE k \in DOMAIN visible_pixels :
                                                  visible_pixels[k] = p]]]

\* Table rows tried: each differs from the first in one column.
LookupRowKeys ==
    {<<1, 1, 0, 0, "FRONT">>, <<1, 1, 1, 0, "FRONT">>, <<1, 1, 0, 2, "FRONT">>,
     <<1, 1, 0, 0, "SIDE">>, <<2, 1, 0, 0, "FRONT">>, <<1, 2, 0, 0, "FRONT">>}

\* Pixels tried: (composite, distance bin, aspect class)
LookupPixelChoices ==
    {<<0, 0, 1>>, <<1, 0, 1>>, <<0, 2, 1>>, <<0, 0, 3>>, <<NOT_VISIBLE_VALUE, 0, 1>>}

InitLookup ==
    /\ mode = "lookup_fov_pct"
    /\ turbine = [gid |-> 1, rd_m |-> 1, hh_m |-> 1, freq_winddir |-> <<>>]
    /\ \E keys \in UNION {[1 .. n -> LookupRowKeys] : n \in 0 .. MaxRows} :
        fov_df = [i \in DOMAIN keys |->
                    FovRow(keys[i][1], keys[i][2], keys[i][3], keys[i][4],
                           keys[i][5], i)]
    /\ \E px \in [Pixels -> LookupPixelChoices] :
        /\ obst_height_array = [p \in Pixels |-> px[p][1]]
        /\ distance_bin_array = [p \in Pixels |-> px[p][2]]
        /\ lookangle_array = [p \in Pixels |-> px[p][3]]
    /\ fov_pct = [ok |-> FALSE]
    /\ lookup_pc = "start"
    /\ obstruction_interval_m = 0 /\ obstruction_heights = <<>>
    /\ height_idx = 0 /\ viewshed_log = <<>> /\ vs_pc = "idle"
    /\ distance_array = <<>> /\ bin_pc = "idle"
    /\ IdleMosaic
    /\ IdleWind
    /\ IdleCheck
    /\ IdleRun
    /\ IdleClassify

LookupFovPct ==
    /\ mode = "lookup_fov_pct" /\ lookup_pc = "start"
    /\ fov_pct' = lookup_fov_pct(fov_df, turbine.rd_m, turbine.hh_m,
                                 obst_height_array, distance_bin_array,
                                 lookangle_array)
    /\ lookup_pc' = "done"
    /\ UNCHANGED <<mode, check_vars, run_vars, class_vars, mosaic_vars, comp_vars, bin_vars, wind_vars, lookangle_array>>

NextLookup == LookupFovPct

SpecLookup == InitLookup /\ [][NextLookup]_vars

LookedUp == mode = "lookup_fov_pct" /\ lookup_pc = "done" /\ fov_pct.ok

\* The table rows for the turbine's dimensions and pixel p's own combination.
RowsOfPixel(p) ==
    {i \in DOMAIN fov_df :
        /\ fov_df[i].rotor_diameter_m = turbine.rd_m
        /\ fov_df[i].hub_height_m = turbine.hh_m
        /\ fov_df[i].obstruction_height_m = obst_height_array[p]
        /\ fov_df[i].distance_m = distance_bin_array[p]
        /\ RotationClass(fov_df[i].rotation) = lookangle_array[p]}

\* C9: a pixel holding the sentinel gets 0; any other pixel gets the pct_fov of
\* the table row with the turbine's dimensions and that pixel's own composite
\* height, distance bin and aspect class (no value when the table has no such row).
C9_LookupByOwnCombination ==
    LookedUp =>
        \A p \in Pixels :
            /\ obst_height_array[p] = NOT_VISIBLE_VALUE => fov_pct.data[p] = 0
            /\ obst_height_array[p] # NOT_VISIBLE_VALUE =>
                /\ \A i \in RowsOfPixel(p) : fov_pct.data[p] = fov_df[i].pct_fov
                /\ RowsOfPixel(p) = {} => fov_pct.data[p] = NaN

\* Two visible pixels with different combinations, each found in the table, the
\* earlier pixel's row listed after the later pixel's row.
C9_Witness ==
    /\ LookedUp
    /\ \E p, q \in Pixels :
        /\ p < q
        /\ obst_height_array[p] # NOT_VISIBLE_VALUE
        /\ obst_height_array[q] # NOT_VISIBLE_VALUE
        /\ \E i \in RowsOfPixel(p) : \E j \in RowsOfPixel(q) : j < i

----------------------------------------------------------------------------
(* measures.classify_look_angle and the wind-direction loop of viewshed() *)

\* The angles tried in the names of the freq_winddir_<angle> columns.
WindAngles == {0, 90, 400}

\* measures.calc_distance_and_direction((3, 3)): the direction array, row by row.
Window3x3Directions == <<315, 0, 45, 270, 90, 90, 225, 180, 135>>

\* arccos of the dot product of the two unit vectors, in degrees: the angular
\* separation of the two bearings, within 0 .. 180.
calc_lookangle(direction_from_turbine, turbine_bearing) ==
    LET diff == (direction_from_turbine - turbine_bearing) % 360
    IN  Min(diff, 360 - diff)

\* Look angles below are in quarter degrees, so that 22.5, 67.5, 90 and 180
\* degrees are the integers 90, 270, 360 and 720; NaN compares False with
\* everything.

\* lookangle[lookangle > 90] = 180 - lookangle[lookangle > 90]
FoldLookangle(a) == IF a # NaN /\ a > 360 THEN 720 - a ELSE a

\* The nested np.where with 22.5 itself counted as FRONT.
LookClassBoundaryFront(a) ==
    LET lookangle == FoldLookangle(a)
    IN  IF lookangle # NaN /\ lookangle >= 0 /\ lookangle <= 90 THEN 1
        ELSE IF lookangle # NaN /\ lookangle > 90 /\ lookangle <= 270 THEN 2
        ELSE IF lookangle # NaN /\ lookangle > 270 /\ lookangle <= 360 THEN 3
        ELSE -1

\* The nested np.where: 1 = Front, 2 = Diagonal, 3 = Side, -1 = error
LookClassOf(a) ==
    LET lookangle == FoldLookangle(a)
    IN  IF lookangle # NaN /\ lookangle >= 0 /\ lookangle < 90 THEN 1
        ELSE IF lookangle # NaN /\ lookangle >= 90 /\ lookangle <= 270 THEN 2
        ELSE IF lookangle # NaN /\ lookangle > 270 /\ lookangle <= 360 THEN 3
        ELSE -1

\* The classes of the pixels of a direction array, before the check for -1.
classify_look_angle(direction_from_turbine, turbine_bearing) ==
    [p \in DOMAIN direction_from_turbine |->
        LookClassOf(4 * calc_lookangle(direction_from_turbine[p], turbine_bearing))]

\* turbine_bearing = (winddir + 180) % 360
TurbineBearing(winddir) == (winddir + 180) % 360

\* Arithmetic on percents that may be missing.
NanPlus(a, b) == IF a = NaN \/ b = NaN THEN NaN ELSE a + b

NanTimes(w, a) == IF a = NaN THEN NaN ELSE w * a

\* (fov_pct_stacked * weights).sum(axis=0) at pixel p
RECURSIVE WeightedSumAt(_, _, _)
WeightedSumAt(arrays, ws, p) ==
    IF arrays = <<>> THEN 0
    ELSE NanPlus(NanTimes(Head(ws), Head(arrays)[p]),
                 WeightedSumAt(Tail(arrays), Tail(ws), p))

\* (the plain mean of the stacked arrays)
UnweightedMean(arrays, ws) ==
    [p \in DOMAIN arrays[1] |->
        [num |-> WeightedSumAt(arrays, [k \in DOMAIN ws |-> 1], p),
         den |-> Len(ws)]]

\* (fov_pct_stacked * weights).sum(axis=0) / sum(weights), each pixel kept as
\* the fraction num / den.
WeightedAverage(arrays, ws) ==
    [p \in DOMAIN arrays[1] |->
        [num |-> WeightedSumAt(arrays, ws, p), den |-> SumSeq(ws)]]

\* A lookup table for a turbine with rotor diameter 2 and hub height 0 on the
\* ladder <<0, 1>> and distance levels 0 and 2: one row per combination.
WindTable ==
    [i \in 1 .. 12 |->
        FovRow(2, 0, (i - 1) \div 6, 2 * (((i - 1) \div 3) % 2),
               <<"FRONT", "DIAGONAL", "SIDE">>[((i - 1) % 3) + 1], i)]

WindTableNoSide == SelectSeq(WindTable, LAMBDA r : r.rotation # "SIDE")


\* The column lists tried: up to MaxCols distinct column names.
WinddirColLists ==
    {cols \in UNION {[1 .. n -> WindAngles] : n \in 1 .. MaxCols} :
        \A i, j \in DOMAIN cols : i # j => cols[i] # cols[j]}

\* viewshed() at the start of the wind-direction loop, the height loop having
\* folded some oracle answers into the composite.
InitWind ==
    /\ mode = "viewshed_winddirs"
    /\ obstruction_interval_m = 1
    /\ obstruction_heights = get_obstruction_heights(2, 0, 1)
    /\ height_idx = Len(obstruction_heights) + 1
    /\ viewshed_log \in [DOMAIN obstruction_heights -> [Pixels -> {0, 1}]]
    /\ obst_height_array = CompositeOver(InitialComposite,
                                         AscendingSeq(DOMAIN obstruction_heights),
                                         obstruction_heights, viewshed_log)
    /\ vs_pc = "winddirs"
    /\ winddir_cols \in WinddirColLists
    /\ \E freq \in [DOMAIN winddir_cols -> -1 .. MaxWeight] :
        turbine = [gid |-> 1, rd_m |-> 2, hh_m |-> 0, freq_winddir |-> freq]
    /\ fov_df \in {WindTable, WindTableNoSide}
    /\ direction_array = [p \in Pixels |-> Window3x3Directions[p]]
    /\ distance_bin_array = [p \in Pixels |-> 2 * (p % 2)]
    /\ distance_array = <<>> /\ bin_pc = "idle"
    /\ lookangle_array = <<>> /\ fov_pct = [ok |-> FALSE] /\ lookup_pc = "idle"
    /\ wd_idx = 1
    /\ weights = <<>>
    /\ fov_pct_arrays = <<>>
    /\ fov_pct_weighted = NoFile
    /\ IdleMosaic
    /\ IdleCheck
    /\ IdleRun
    /\ IdleClassify

InWindLoop ==
    /\ mode \in {"viewshed_winddirs", "viewshed"} /\ vs_pc = "winddirs"
    /\ wd_idx <= Len(winddir_cols)

\* weight <= 0: continue
WinddirSkip ==
    /\ InWindLoop
    /\ turbine.freq_winddir[wd_idx] <= 0
    /\ wd_idx' = wd_idx + 1
    /\ UNCHANGED <<mode, check_vars, run_vars, class_vars, mosaic_vars, comp_vars, bin_vars, lookup_vars, winddir_cols,
                   direction_array, weights, fov_pct_arrays, fov_pct_weighted>>

\* the weight is kept, then the angle of the column name is out of 0 .. 360
WinddirOutOfRange ==
    /\ InWindLoop
    /\ turbine.freq_winddir[wd_idx] > 0
    /\ winddir_cols[wd_idx] < 0 \/ winddir_cols[wd_idx] > 360
    /\ weights' = Append(weights, turbine.freq_winddir[wd_idx])
    /\ vs_pc' = "raised"
    /\ UNCHANGED <<mode, check_vars, run_vars, class_vars, mosaic_vars, bin_vars, lookup_vars, turbine,
                   obstruction_interval_m, obstruction_heights, height_idx,
                   viewshed_log, obst_height_array, winddir_cols, direction_array,
                   wd_idx, fov_pct_arrays, fov_pct_weighted>>

\* the weight is kept, the pixels are classified for the turbine bearing and
\* their percents looked up
WinddirEvaluate ==
    /\ InWindLoop
    /\ turbine.freq_winddir[wd_idx] > 0
    /\ ~(winddir_cols[wd_idx] < 0 \/ winddir_cols[wd_idx] > 360)
    /\ weights' = Append(weights, turbine.freq_winddir[wd_idx])
    /\ LET turbine_bearing == TurbineBearing(winddir_cols[wd_idx])
           lookangles == classify_look_angle(direction_array, turbine_bearing)
           pct == lookup_fov_pct(fov_df, turbine.rd_m, turbine.hh_m,
                                 obst_height_array, distance_bin_array, lookangles)
       IN  /\ lookangle_array' = lookangles
           /\ fov_pct' = pct
           /\ IF pct.ok
              THEN /\ fov_pct_arrays' = Append(fov_pct_arrays, pct.data)
                   /\ wd_idx' = wd_idx + 1
                   /\ vs_pc' = vs_pc
              ELSE /\ vs_pc' = "raised"
                   /\ UNCHANGED <<fov_pct_arrays, wd_idx>>
    /\ UNCHANGED <<mode, check_vars, run_vars, class_vars, mosaic_vars, bin_vars, lookup_pc, turbine,
                   obstruction_interval_m, obstruction_heights, height_idx,
                   viewshed_log, obst_height_array, winddir_cols, direction_array,
                   fov_pct_weighted>>

\* np.stack of an empty list raises
StackRaises ==
    /\ mode \in {"viewshed_winddirs", "viewshed"} /\ vs_pc = "winddirs"
    /\ wd_idx > Len(winddir_cols)
    /\ fov_pct_arrays = <<>>
    /\ vs_pc' = "raised"
    /\ UNCHANGED <<mode, check_vars, run_vars, class_vars, mosaic_vars, bin_vars, lookup_vars, wind_vars, turbine,
                   obstruction_interval_m, obstruction_heights, height_idx,
                   viewshed_log, obst_height_array>>

\* (a save that writes an empty raster when no bucket was kept)
SaveWeightedOrEmpty ==
    /\ mode \in {"viewshed_winddirs", "viewshed"} /\ vs_pc = "winddirs"
    /\ wd_idx > Len(winddir_cols)
    /\ fov_pct_weighted' = [exists |-> TRUE,
                            data |-> IF fov_pct_arrays = <<>> THEN <<>>
                                     ELSE WeightedAverage(fov_pct_arrays, weights)]
    /\ vs_pc' = "done"
    /\ UNCHANGED <<mode, check_vars, run_vars, class_vars, mosaic_vars, bin_vars, lookup_vars, turbine,
                   obstruction_interval_m, obstruction_heights, height_idx,
                   viewshed_log, obst_height_array, winddir_cols, direction_array,
                   wd_idx, weights, fov_pct_arrays>>

\* the weighted average is computed and saved as fov-pct_gid{gid}.tif
SaveWeighted ==
    /\ mode \in {"viewshed_winddirs", "viewshed"} /\ vs_pc = "winddirs"
    /\ wd_idx > Len(winddir_cols)
    /\ fov_pct_arrays # <<>>
    /\ fov_pct_weighted' = [exists |-> TRUE,
                            data |-> WeightedAverage(fov_pct_arrays, weights)]
    /\ vs_pc' = "done"
    /\ UNCHANGED <<mode, check_vars, run_vars, class_vars, mosaic_vars, bin_vars, lookup_vars, turbine,
                   obstruction_interval_m, obstruction_heights, height_idx,
                   viewshed_log, obst_height_array, winddir_cols, direction_array,
                   wd_idx, weights, fov_pct_arrays>>

NextWind ==
    \/ WinddirSkip
    \/ WinddirOutOfRange
    \/ WinddirEvaluate
    \/ StackRaises
    \/ SaveWeighted

SpecWind == InitWind /\ [][NextWind]_vars

WindDone == mode = "viewshed_winddirs" /\ vs_pc = "done"

\* The buckets that are not skipped.
RemainingBuckets == {k \in DOMAIN winddir_cols : turbine.freq_winddir[k] > 0}

\* The table rows for the turbine's dimensions, pixel p's composite height and
\* distance bin, and an aspect class.
RowsOfPixelFacing(p, rot_class) ==
    {i \in DOMAIN fov_df :
        /\ fov_df[i].rotor_diameter_m = turbine.rd_m
        /\ fov_df[i].hub_height_m = turbine.hh_m
        /\ fov_df[i].obstruction_height_m = obst_height_array[p]
        /\ fov_df[i].distance_m = distance_bin_array[p]
        /\ RotationClass(fov_df[i].rotation) = rot_class}

\* fov_d[pixel]: the percent of pixel p for bucket k, the turbine facing
\* (d + 180) mod 360.
BucketFov(k, p) ==
    LET bearing == (winddir_cols[k] + 180) % 360
        rot_class == classify_look_angle(direction_array, bearing)[p]
        rows == RowsOfPixelFacing(p, rot_class)
    IN  IF obst_height_array[p] = NOT_VISIBLE_VALUE THEN 0
        ELSE IF rows = {} THEN NaN
        ELSE fov_df[CHOOSE i \in rows : TRUE].pct_fov

\* C10: buckets with weight <= 0 contribute nothing and are not evaluated; each
\* pixel of the saved raster is (sum of weight_d * fov_d[pixel]) / (sum of
\* weight_d) over the remaining buckets, fov_d taken for the turbine bearing
\* (d + 180) mod 360; a pixel with no value in some remaining bucket has none.
C10_WeightedAverageOverRemainingBuckets ==
    WindDone =>
        /\ Len(fov_pct_arrays) = Cardinality(RemainingBuckets)
        /\ fov_pct_weighted.exists
        /\ \A p \in Pixels :
            LET out == fov_pct_weighted.data[p]
                ks == AscendingSeq(RemainingBuckets)
                sum_w == SumSeq([i \in DOMAIN ks |-> turbine.freq_winddir[ks[i]]])
                sum_wf == SumSeq([i \in DOMAIN ks |->
                                    turbine.freq_winddir[ks[i]] * BucketFov(ks[i], p)])
            IN  IF \E k \in RemainingBuckets : BucketFov(k, p) = NaN
                THEN out.num = NaN
                ELSE /\ out.num # NaN
                     /\ out.den > 0
                     /\ out.num * sum_w = out.den * sum_wf

\* A saved raster for a turbine with a skipped bucket whose angle is out of
\* range and two remaining buckets of different weight that give some visible
\* pixel different percents.
C10_Witness ==
    /\ WindDone
    /\ \E k \in DOMAIN winddir_cols :
        turbine.freq_winddir[k] <= 0 /\ winddir_cols[k] > 360
    /\ \E i, j \in RemainingBuckets : \E p \in Pixels :
        /\ turbine.freq_winddir[i] # turbine.freq_winddir[j]
        /\ BucketFov(i, p) # NaN /\ BucketFov(j, p) # NaN
        /\ BucketFov(i, p) # BucketFov(j, p)


----------------------------------------------------------------------------
(* viewshed(): a turbine without any positive weight *)

ZeroTotalWeight ==
    /\ mode = "viewshed_winddirs"
    /\ \A k \in DOMAIN winddir_cols : turbine.freq_winddir[k] <= 0

\* C11: for a turbine whose weights are all <= 0 the task never completes and
\* never writes fov-pct_gid{gid}.tif; once every bucket has been skipped the
\* only step left is the one that raises.
C11_ZeroTotalWeightRaises ==
    ZeroTotalWeight =>
        /\ vs_pc \in {"winddirs", "raised"}
        /\ ~fov_pct_weighted.exists
        /\ fov_pct_arrays = <<>>
        /\ (vs_pc = "winddirs" /\ wd_idx > Len(winddir_cols)) =>
                (ENABLED StackRaises /\ ~ENABLED SaveWeighted)

\* Every bucket of a turbine has been skipped and the task has raised.
C11_Witness ==
    /\ ZeroTotalWeight
    /\ Len(winddir_cols) > 1
    /\ wd_idx > Len(winddir_cols)
    /\ vs_pc = "raised"

----------------------------------------------------------------------------
(* visibility.check_fov_lkup_complete *)

TurbineRow(gid, rd, hh, freq) ==
    [gid |-> gid, rd_m |-> rd, hh_m |-> hh, freq_winddir |-> freq]

\* list(TURBINE_ROTATIONS.keys())
TurbineRotationNames == {"FRONT", "DIAGONAL", "SIDE"}

\* np.unique(turbines_df[["rd_m", "hh_m"]].to_numpy(), axis=0)
RequiredTurbineDimensions(turbines) ==
    {<<turbines[i].rd_m, turbines[i].hh_m>> : i \in DOMAIN turbines}

\* fov_df["distance_m"].max() / 1000 < max_distance_km; the maximum of an
\* empty column is NaN, and no comparison with NaN is true.
MaxFovDistanceTooSmall(df, max_km) ==
    /\ df # <<>>
    /\ \A i \in DOMAIN df : df[i].distance_m < 1000 * max_km

\* the table's distance levels with d / 1000 <= max_distance_km
CheckedDistances(df, max_km) ==
    {d \in SeqRange(DistanceValues(df)) : d <= 1000 * max_km}

\* required_records: the product, per pair of turbine dimensions
RequiredRecords(df, turbines, interval, max_km) ==
    UNION {{<<dim[1], dim[2], oh, d, rot>> :
                oh \in SeqRange(get_obstruction_heights(dim[1], dim[2], interval)),
                d \in CheckedDistances(df, max_km),
                rot \in TurbineRotationNames} :
           dim \in RequiredTurbineDimensions(turbines)}

RowMatches(row, rec) ==
    /\ row.rotor_diameter_m = rec[1]
    /\ row.hub_height_m = rec[2]
    /\ row.obstruction_height_m = rec[3]
    /\ row.distance_m = rec[4]
    /\ row.rotation = rec[5]

\* len(pd.merge(required_df, fov_df, how="inner")): one row per pair of a
\* required record and a table row with the same five values
JoinLength(df, required) ==
    Cardinality({pair \in required \X DOMAIN df : RowMatches(df[pair[2]], pair[1])})

check_fov_lkup_complete(df, turbines, interval, max_km) ==
    LET required == RequiredRecords(df, turbines, interval, max_km)
    IN  IF MaxFovDistanceTooSmall(df, max_km) THEN "raised_distance"
        ELSE IF JoinLength(df, required) < Cardinality(required)
             THEN "raised_missing"
        ELSE "passed"

\* Table rows tried: the six combinations of a turbine with rotor diameter 0
\* and hub height 0 at two distance levels, rows for a height its ladder does
\* not hold, and a row of another turbine.
CheckRowKeys ==
    {<<0, 0, oh, d, rot>> : oh \in {0, 1}, d \in {1000, 2000},
                            rot \in TurbineRotationNames}
        \cup {<<2, 0, 0, 1000, "FRONT">>}

CheckTurbineSets ==
    {<<TurbineRow(1, 0, 0, <<>>)>>,
     <<TurbineRow(1, 0, 0, <<>>), TurbineRow(2, 0, 0, <<>>)>>,
     <<TurbineRow(1, 0, 0, <<>>), TurbineRow(2, 2, 0, <<>>)>>}

InitCheck ==
    /\ mode = "check_fov_lkup_complete"
    /\ \E keys \in UNION {[1 .. n -> CheckRowKeys] : n \in 0 .. MaxRows} :
        fov_df = [i \in DOMAIN keys |->
                    FovRow(keys[i][1], keys[i][2], keys[i][3], keys[i][4],
                           keys[i][5], i)]
    /\ turbines_df \in CheckTurbineSets
    /\ max_distance_km \in 1 .. MaxDistanceKm
    /\ obstruction_interval_m = 1
    /\ check_pc = "start"
    /\ turbine = [gid |-> 0, rd_m |-> 0, hh_m |-> 0, freq_winddir |-> <<>>]
    /\ obstruction_heights = <<>> /\ height_idx = 0 /\ viewshed_log = <<>>
    /\ obst_height_array = <<>> /\ vs_pc = "idle"
    /\ distance_array = <<>> /\ distance_bin_array = <<>> /\ bin_pc = "idle"
    /\ IdleMosaic
    /\ IdleLookup
    /\ IdleWind
    /\ IdleRun
    /\ IdleClassify

CheckFovLkupComplete ==
    /\ mode = "check_fov_lkup_complete" /\ check_pc = "start"
    /\ check_pc' = check_fov_lkup_complete(fov_df, turbines_df,
                                           obstruction_interval_m, max_distance_km)
    /\ UNCHANGED <<mode, mosaic_vars, comp_vars, bin_vars, lookup_vars, wind_vars,
                   run_vars, class_vars, turbines_df, max_distance_km>>

NextCheck == CheckFovLkupComplete

SpecCheck == InitCheck /\ [][NextCheck]_vars

\* The required combinations for which the table holds no row.
MissingCombinations ==
    {rec \in RequiredRecords(fov_df, turbines_df, obstruction_interval_m,
                             max_distance_km) :
        \A i \in DOMAIN fov_df : ~RowMatches(fov_df[i], rec)}

\* C12: check_fov_lkup_complete returns normally only when every required
\* combination has a row in the table; it raises whenever one has none.
C12_RaisesWhenACombinationIsMissing ==
    (mode = "check_fov_lkup_complete" /\ check_pc = "passed") =>
        MissingCombinations = {}

\* No two rows of the table hold the same five key values.
NoDuplicateRows ==
    \A i, j \in DOMAIN fov_df :
        (i # j) => \E f \in {"rotor_diameter_m", "hub_height_m", "obstruction_height_m",
                             "distance_m", "rotation"} : fov_df[i][f] # fov_df[j][f]

\* The same statement for tables that hold every key at most once.
C12_HoldsWithoutDuplicateRows ==
    (mode = "check_fov_lkup_complete" /\ check_pc \notin {"idle", "start"}
        /\ NoDuplicateRows) =>
        /\ (check_pc = "passed") => MissingCombinations = {}
        /\ (check_pc = "raised_missing") => MissingCombinations # {}

----------------------------------------------------------------------------
(* cli/viewshed.py run(): load and check the inputs, one task per turbine *)

\* REQUIRED_FOV_COLS in the order of the dict: the column and the dtype kind
\* its checker accepts.
REQUIRED_FOV_COLS ==
    <<<<"hub_height_m", "numeric">>, <<"rotor_diameter_m", "numeric">>,
      <<"distance_m", "numeric">>, <<"rotation", "string">>,
      <<"obstruction_height_m", "numeric">>>>

\* check_columns: the first required column that is missing raises KeyError,
\* the first whose dtype check fails raises ValueError.
check_columns(columns, required_columns) ==
    LET bad == {i \in DOMAIN required_columns :
                    \/ required_columns[i][1] \notin DOMAIN columns
                    \/ columns[required_columns[i][1]] # required_columns[i][2]}
    IN  IF bad = {} THEN "ok"
        ELSE IF required_columns[SetMin(bad)][1] \notin DOMAIN columns THEN "KeyError"
        ELSE "ValueError"

\* The columns of a well-formed lookup csv.
FullFovColumns ==
    [c \in {"hub_height_m", "rotor_diameter_m", "distance_m", "obstruction_height_m",
            "rotation", "pct_fov"} |-> IF c = "rotation" THEN "string" ELSE "numeric"]

\* The csv files tried: well-formed, one column absent, or one column of the
\* other dtype kind.
FovColumnChoices ==
    {FullFovColumns}
    \cup {[c \in DOMAIN FullFovColumns \ {gone} |-> FullFovColumns[c]] :
            gone \in DOMAIN FullFovColumns}
    \cup {[FullFovColumns EXCEPT ![c] = IF @ = "string" THEN "numeric" ELSE "string"] :
            c \in DOMAIN FullFovColumns}

\* A lookup table for turbines with rotor diameter 2 and hub height 0 on the
\* ladder <<0, 1>> and distance levels 0 and 1000.
RunTable ==
    [i \in 1 .. 12 |->
        FovRow(2, 0, (i - 1) \div 6, 1000 * (((i - 1) \div 3) % 2),
               <<"FRONT", "DIAGONAL", "SIDE">>[((i - 1) % 3) + 1], i)]

RunTableNoSide == SelectSeq(RunTable, LAMBDA r : r.rotation # "SIDE")

\* f"fov-pct_gid{turbine_gid}.tif"
OutFileName(gid) == <<"fov-pct_gid", gid>>

InitRun ==
    /\ mode = "viewshed_run"
    /\ winddir_cols \in {<<>>, <<0>>}
    /\ turbines_df \in UNION {[1 .. n -> {TurbineRow(gid, 2, 0, freq) :
                                            gid \in 1 .. MaxTurbines,
                                            freq \in [DOMAIN winddir_cols -> {0, 1}]}] :
                              n \in 1 .. MaxTurbines}
    /\ oracle_covers \in [DOMAIN turbines_df -> BOOLEAN]
    /\ fov_columns \in FovColumnChoices
    /\ fov_df \in {RunTable, RunTableNoSide}
    /\ fov_columns = FullFovColumns \/ fov_df = RunTable
    /\ obstruction_interval_m = 1
    /\ max_distance_km = 1
    /\ max_workers \in 1 .. MaxWorkers
    /\ check_pc = "start"
    /\ vrun_pc = "start"
    /\ vtask_state = <<>>
    /\ out_files = EmptyFn
    /\ vrun_error = <<>>
    /\ vrt_sources_df = <<>> /\ full_profile = [width |-> 0, height |-> 0]
    /\ zero_read_raises = FALSE /\ block_size = 0 /\ task_state = EmptyFn
    /\ block_files = EmptyFn /\ merge_pc = "idle"
    /\ run_error = <<>> /\ merged_tif = NoFile
    /\ turbine = [gid |-> 0, rd_m |-> 0, hh_m |-> 0, freq_winddir |-> <<>>]
    /\ obstruction_heights = <<>> /\ height_idx = 0 /\ viewshed_log = <<>>
    /\ obst_height_array = <<>> /\ vs_pc = "idle"
    /\ distance_array = <<>> /\ distance_bin_array = <<>> /\ bin_pc = "idle"
    /\ direction_array = <<>> /\ wd_idx = 0 /\ weights = <<>>
    /\ fov_pct_arrays = <<>> /\ fov_pct_weighted = NoFile
    /\ IdleLookup
    /\ IdleClassify


\* What no step of run() changes.
run_inputs ==
    <<mode, mosaic_vars, comp_vars, bin_vars, lookup_vars, wind_vars, class_vars,
      turbines_df, max_distance_km, fov_columns, oracle_covers>>

\* No freq_winddir_ column in the turbines dataset.
RunNoWinddirCols ==
    /\ mode = "viewshed_run" /\ vrun_pc = "start"
    /\ Len(winddir_cols) = 0
    /\ vrun_pc' = "raised"
    /\ vrun_error' = [stage |-> "winddir_cols", class |-> "ValueError"]
    /\ UNCHANGED <<run_inputs, check_pc, vtask_state, out_files>>

\* check_columns(fov_df, REQUIRED_FOV_COLS) raises.
RunSchemaRaises ==
    /\ mode = "viewshed_run" /\ vrun_pc = "start"
    /\ Len(winddir_cols) # 0
    /\ check_columns(fov_columns, REQUIRED_FOV_COLS) # "ok"
    /\ vrun_pc' = "raised"
    /\ vrun_error' = [stage |-> "check_columns",
                      class |-> check_columns(fov_columns, REQUIRED_FOV_COLS)]
    /\ UNCHANGED <<run_inputs, check_pc, vtask_state, out_files>>

\* check_fov_lkup_complete raises.
RunIncompleteRaises ==
    /\ mode = "viewshed_run" /\ vrun_pc = "start"
    /\ Len(winddir_cols) # 0
    /\ check_columns(fov_columns, REQUIRED_FOV_COLS) = "ok"
    /\ check_pc' = check_fov_lkup_complete(fov_df, turbines_df,
                                           obstruction_interval_m, max_distance_km)
    /\ check_pc' # "passed"
    /\ vrun_pc' = "raised"
    /\ vrun_error' = [stage |-> "check_fov_lkup_complete", class |-> "ValueError"]
    /\ UNCHANGED <<run_inputs, vtask_state, out_files>>

\* One turn of the submit loop: the viewshed() task of the next row goes to
\* the pool, whose workers run the rows submitted before it meanwhile. The
\* first turn follows the checks, which all pass; after the last row run() is
\* at the end of the "with" block.
SubmitTurbine ==
    /\ mode = "viewshed_run" /\ vrun_pc \in {"start", "submit"}
    /\ vrun_pc = "start" =>
        /\ Len(winddir_cols) # 0
        /\ check_columns(fov_columns, REQUIRED_FOV_COLS) = "ok"
        /\ check_fov_lkup_complete(fov_df, turbines_df, obstruction_interval_m,
                                   max_distance_km) = "passed"
    /\ check_pc' = "passed"
    /\ vtask_state' = Append(vtask_state, "queued")
    /\ vrun_pc' = IF Len(vtask_state) + 1 = Len(turbines_df) THEN "pool" ELSE "submit"
    /\ UNCHANGED <<run_inputs, out_files, vrun_error>>

TurbineTasksIn(st) == {i \in DOMAIN vtask_state : vtask_state[i] = st}

\* The pool hands queued work to a free worker in submission order.
StartTurbineTask ==
    /\ mode = "viewshed_run" /\ vrun_pc \in {"submit", "pool"}
    /\ Cardinality(TurbineTasksIn("running")) < max_workers
    /\ \E i \in TurbineTasksIn("queued") :
        /\ \A j \in 1 .. i - 1 : vtask_state[j] # "queued"
        /\ vtask_state' = [vtask_state EXCEPT ![i] = "running"]
    /\ UNCHANGED <<run_inputs, check_pc, vrun_pc, out_files, vrun_error>>

\* viewshed() of row i raises: the oracle's raster has another shape, no
\* weight is positive, or the table has no pct_fov column to read.
TaskRaises(i) ==
    \/ ~oracle_covers[i]
    \/ \A k \in DOMAIN winddir_cols : turbines_df[i].freq_winddir[k] <= 0
    \/ "pct_fov" \notin DOMAIN fov_columns

\* A worker runs viewshed() to its end: the file fov-pct_gid{gid}.tif, or an
\* exception. Percents that are not numbers may or may not be usable.
FinishTurbineTask ==
    /\ mode = "viewshed_run" /\ vrun_pc \in {"submit", "pool"}
    /\ \E i \in TurbineTasksIn("running") :
        \E succeeds \in BOOLEAN :
            /\ TaskRaises(i) => ~succeeds
            /\ ("pct_fov" \in DOMAIN fov_columns /\ fov_columns["pct_fov"] = "numeric"
                    /\ ~TaskRaises(i)) => succeeds
            /\ vtask_state' = [vtask_state EXCEPT
                                 ![i] = IF succeeds THEN "ok" ELSE "failed"]
            /\ out_files' =
                IF succeeds
                THEN LET f == OutFileName(turbines_df[i].gid)
                     IN  (f :> (IF f \in DOMAIN out_files THEN Append(out_files[f], i)
                                ELSE <<i>>)) @@ out_files
                ELSE out_files
    /\ UNCHANGED <<run_inputs, check_pc, vrun_pc, vrun_error>>

\* Leaving the "with ProcessPoolExecutor" block waits for every task.
TurbinePoolExit ==
    /\ mode = "viewshed_run" /\ vrun_pc = "pool"
    /\ \A i \in DOMAIN vtask_state : vtask_state[i] \in {"ok", "failed"}
    /\ vrun_pc' = "collect"
    /\ UNCHANGED <<run_inputs, check_pc, vtask_state, out_files, vrun_error>>

\* (an as_completed loop running while the pool still works)
TurbineCollectRaisesEarly ==
    /\ mode = "viewshed_run" /\ vrun_pc \in {"submit", "pool", "collect"}
    /\ \E i \in TurbineTasksIn("failed") :
        /\ vrun_error' = [stage |-> "task", unit |-> i]
        /\ vrun_pc' = "raised"
    /\ UNCHANGED <<run_inputs, check_pc, vtask_state, out_files>>

\* The as_completed loop: the first failed future it meets re-raises, the
\* message holding that turbine's row; the futures are all done, in no
\* particular order.
TurbineCollectRaises ==
    /\ mode = "viewshed_run" /\ vrun_pc = "collect"
    /\ \E i \in TurbineTasksIn("failed") :
        /\ vrun_error' = [stage |-> "task", unit |-> i]
        /\ vrun_pc' = "raised"
    /\ UNCHANGED <<run_inputs, check_pc, vtask_state, out_files>>

\* No future failed: run() returns the output path.
RunCompletes ==
    /\ mode = "viewshed_run" /\ vrun_pc = "collect"
    /\ TurbineTasksIn("failed") = {}
    /\ vrun_pc' = "done"
    /\ UNCHANGED <<run_inputs, check_pc, vtask_state, out_files, vrun_error>>

NextRun ==
    \/ RunNoWinddirCols
    \/ RunSchemaRaises
    \/ RunIncompleteRaises
    \/ SubmitTurbine
    \/ StartTurbineTask
    \/ FinishTurbineTask
    \/ TurbinePoolExit
    \/ TurbineCollectRaises
    \/ RunCompletes

SpecRun == InitRun /\ [][NextRun]_vars


\* The csv lacks a column the lookup needs, or holds it with the wrong dtype.
BadFovColumns(required) ==
    \E c \in required : c \notin DOMAIN fov_columns \/ fov_columns[c] # FullFovColumns[c]

RejectedAtLoad(required) ==
    /\ vrun_pc = "raised"
    /\ vrun_error.stage = "check_columns"
    /\ vrun_error.class = (IF \E c \in required : c \notin DOMAIN fov_columns
                           THEN "KeyError" ELSE "ValueError")
    /\ vtask_state = <<>>

\* C13: a lookup table lacking one of the six required columns, or holding one
\* with the wrong type, is rejected at load time (KeyError when missing,
\* ValueError when wrongly typed) before any task is submitted.
C13_BadSchemaRejectedAtLoad ==
    (mode = "viewshed_run" /\ vrun_pc # "start" /\ Len(winddir_cols) # 0
        /\ BadFovColumns(DOMAIN FullFovColumns)) =>
        RejectedAtLoad(DOMAIN FullFovColumns)

\* The same statement for the five columns other than pct_fov.
C13_HoldsForKeyColumns ==
    (mode = "viewshed_run" /\ vrun_pc # "start" /\ Len(winddir_cols) # 0
        /\ BadFovColumns(DOMAIN FullFovColumns \ {"pct_fov"})) =>
        RejectedAtLoad(DOMAIN FullFovColumns \ {"pct_fov"})

----------------------------------------------------------------------------
(* cli/viewshed.py viewshed(): the whole per-turbine task *)

InitTask ==
    /\ mode = "viewshed"
    /\ obstruction_interval_m = 1
    /\ winddir_cols \in WinddirColLists
    /\ \E freq \in [DOMAIN winddir_cols -> -1 .. MaxWeight] :
        turbine = [gid |-> 1, rd_m |-> 2, hh_m |-> 0, freq_winddir |-> freq]
    /\ fov_df = WindTable
    /\ direction_array = [p \in Pixels |-> Window3x3Directions[p]]
    /\ distance_bin_array = [p \in Pixels |-> 2 * (p % 2)]
    /\ obstruction_heights = <<>>
    /\ height_idx = 0
    /\ viewshed_log = <<>>
    /\ obst_height_array = <<>>
    /\ vs_pc = "start"
    /\ distance_array = <<>> /\ bin_pc = "idle"
    /\ wd_idx = 1
    /\ weights = <<>>
    /\ fov_pct_arrays = <<>>
    /\ fov_pct_weighted = NoFile
    /\ IdleMosaic
    /\ IdleLookup
    /\ IdleCheck
    /\ IdleRun
    /\ IdleClassify

NextTask == NextComposite \/ NextWind

SpecTask == InitTask /\ [][NextTask]_vars

\* Positions of the oracle answers whose shape is not the window's.
MismatchedAnswers == {i \in DOMAIN viewshed_log : DOMAIN viewshed_log[i] # Pixels}

\* C14: once the oracle has answered with a raster of another shape, the task
\* has raised at that height, that answer is the last the oracle was asked for,
\* no fov-pct raster exists, and the task takes no further step.
C14_ShapeMismatchIsFatal ==
    /\ [](MismatchedAnswers # {} =>
            /\ vs_pc = "raised"
            /\ MismatchedAnswers = {Len(viewshed_log)}
            /\ height_idx = Len(viewshed_log)
            /\ ~fov_pct_weighted.exists)
    /\ [][MismatchedAnswers # {} => UNCHANGED vars]_vars

\* The task raised at the second ladder height, after one good answer.
C14_Witness ==
    /\ mode = "viewshed"
    /\ vs_pc = "raised"
    /\ Len(viewshed_log) = 2
    /\ MismatchedAnswers = {2}
    /\ Len(obstruction_heights) >= 2

----------------------------------------------------------------------------
(* The process pools of the two commands *)

\* Either command is run.
InitPools == InitMerge \/ InitRun

NextPools == NextMerge \/ NextRun

SpecPools == InitPools /\ [][NextPools]_vars

\* A task of the run has failed and the run has raised for it.
TaskFailureSurfaced ==
    \/ mode = "merge" /\ merge_pc = "raised"
    \/ mode = "viewshed_run" /\ vrun_pc = "raised" /\ vrun_error.stage = "task"

\* C15: a failure is surfaced only after every submitted task has run to its
\* end (none is left queued, running or cancelled); the error names a unit that
\* failed; and a run in which a task failed raises and never reports success.
C15_SiblingsFinishBeforeFailureSurfaces ==
    /\ TaskFailureSurfaced =>
        /\ \A k \in DOMAIN task_state : task_state[k] \in {"ok", "failed"}
        /\ \A i \in DOMAIN vtask_state : vtask_state[i] \in {"ok", "failed"}
        /\ mode = "merge" => run_error \in TasksIn("failed")
        /\ mode = "viewshed_run" => vrun_error.unit \in TurbineTasksIn("failed")
    /\ (merge_pc = "done" \/ vrun_pc = "done") =>
        TasksIn("failed") = {} /\ TurbineTasksIn("failed") = {}
    /\ (merge_pc = "collect" /\ TasksIn("failed") # {}) =>
        (ENABLED CollectRaises /\ ~ENABLED MergeBlocks)
    /\ (vrun_pc = "collect" /\ TurbineTasksIn("failed") # {}) =>
        (ENABLED TurbineCollectRaises /\ ~ENABLED RunCompletes)

\* A turbine run that raised for a failed task while a sibling had succeeded
\* and written its raster.
C15_Witness ==
    /\ mode = "viewshed_run" /\ vrun_pc = "raised" /\ vrun_error.stage = "task"
    /\ TurbineTasksIn("ok") # {}
    /\ \E f \in DOMAIN out_files : Len(out_files[f]) > 0


\* The units the raised error tells of: the one future whose exception was
\* re-raised.
ReportedUnits == IF mode = "merge" THEN {run_error} ELSE {vrun_error.unit}

FailedUnits == IF mode = "merge" THEN TasksIn("failed") ELSE TurbineTasksIn("failed")

\* C16: when the run raises for failed tasks, the error it reports tells of
\* every unit that failed.
C16_EveryFailingUnitReported ==
    TaskFailureSurfaced => FailedUnits \subseteq ReportedUnits

\* What the error does tell: exactly one of the units that failed.
C16_OneFailingUnitReported ==
    TaskFailureSurfaced =>
        Cardinality(ReportedUnits) = 1 /\ ReportedUnits \subseteq FailedUnits


----------------------------------------------------------------------------
(* cli/merge.py run(): the final placement step *)

\* Block k of the blocks directory is in the merged raster pixel for pixel.
BlockFullyPresent(k) ==
    LET blk == block_files[k]
    IN  \A p \in DOMAIN blk.data :
            LET q == <<p[1] + blk.row_off - merged_tif.row_off,
                       p[2] + blk.col_off - merged_tif.col_off>>
            IN  q \in DOMAIN merged_tif.data /\ merged_tif.data[q] = blk.data[p]

\* C17: fov-pct_sum.tif exists only once the run is done, and then every block
\* task succeeded and every block is in it pixel for pixel; a run with a
\* failed block task raises and leaves no merged raster.
C17_MergeOnlyAfterEveryBlockSucceeded ==
    mode = "merge" =>
        /\ merged_tif.exists =>
            /\ merge_pc = "done"
            /\ \A k \in DOMAIN task_state : task_state[k] = "ok"
            /\ DOMAIN block_files = DOMAIN task_state
            /\ \A k \in DOMAIN task_state : BlockFullyPresent(k)
        /\ merge_pc = "done" => merged_tif.exists
        /\ (merge_pc \in {"collect", "raised"} /\ TasksIn("failed") # {}) =>
            ~merged_tif.exists
        /\ merge_pc \in {"start", "pool", "collect", "raised"} => ~merged_tif.exists

\* A finished merge of at least two blocks.
C17_Witness ==
    /\ mode = "merge"
    /\ merge_pc = "done"
    /\ merged_tif.exists
    /\ Cardinality(DOMAIN task_state) >= 2


----------------------------------------------------------------------------
(* raster.py mosaic_block(): the name of the block file *)

DigitChars == <<"0", "1", "2", "3", "4", "5", "6", "7", "8", "9">>

\* str() of a non-negative integer, as its sequence of characters
RECURSIVE Decimal(_)
Decimal(n) ==
    IF n < 10 THEN <<DigitChars[n + 1]>>
    ELSE Decimal(n \div 10) \o <<DigitChars[(n % 10) + 1]>>

\* The two offsets written one after the other with nothing between them.
BlockFileNameNoSeparator(row_offset, col_offset) ==
    <<"block_">> \o Decimal(row_offset) \o Decimal(col_offset) \o <<".tif">>

\* f"block_{row_offset}_{col_offset}.tif"
BlockFileName(row_offset, col_offset) ==
    <<"block_">> \o Decimal(row_offset) \o <<"_">> \o Decimal(col_offset)
        \o <<".tif">>

\* Offsets of one and of two digits, beyond those of the bounded runs.
NamedOffsets == 0 .. 12

BlockNamesDistinct ==
    \A a, b \in NamedOffsets \X NamedOffsets :
        a # b => BlockFileName(a[1], a[2]) # BlockFileName(b[1], b[2])

\* A step of the pool writes at most one block file, the one named by the
\* offsets of a task that was running, at those offsets.
OneWriterOneFile ==
    block_files' # block_files =>
        \E k \in TasksIn("running") :
            /\ k \notin DOMAIN block_files
            /\ DOMAIN block_files' = DOMAIN block_files \cup {k}
            /\ \A j \in DOMAIN block_files : block_files'[j] = block_files[j]
            /\ block_files'[k].row_off = k[1] /\ block_files'[k].col_off = k[2]
            /\ \A j \in DOMAIN task_state \ {k} :
                    BlockFileName(j[1], j[2]) # BlockFileName(k[1], k[2])

\* C18: the offsets submitted in one merge run are pairwise different, the
\* file names block_{row_offset}_{col_offset}.tif of different offsets are
\* different, and every write of a block file is the write of one task to the
\* file of its own offsets, which no other task of the run is named for.
C18_BlockWritersNeverCollide ==
    /\ [](mode = "merge" =>
            LET offs == Offsets(full_profile, block_size)
            IN  /\ \A i, j \in DOMAIN offs : i # j => offs[i] # offs[j]
                /\ BlockNamesDistinct
                /\ merge_pc # "start" => DOMAIN task_state = SeqRange(offs)
                /\ DOMAIN block_files \subseteq DOMAIN task_state
                /\ \A k \in DOMAIN block_files : task_state[k] = "ok")
    /\ [][mode = "merge" => OneWriterOneFile]_vars

\* Two block tasks running at once while another block is already written.
C18_Witness ==
    /\ mode = "merge"
    /\ Cardinality(TasksIn("running")) >= 2
    /\ DOMAIN block_files # {}


----------------------------------------------------------------------------
(* cli/viewshed.py: the output file of each per-turbine task *)

\* The tasks of the run whose final raster goes to file f.
WritersOf(f) ==
    {i \in DOMAIN vtask_state : OutFileName(turbines_df[i].gid) = f}

\* C19: in a viewshed run, no two per-turbine tasks write the same
\* fov-pct_gid{gid}.tif: every output file has one task that writes it and
\* has been written at most once.
C19_EachTurbineWritesItsOwnFile ==
    mode = "viewshed_run" =>
        /\ \A i \in DOMAIN vtask_state :
                Cardinality(WritersOf(OutFileName(turbines_df[i].gid))) = 1
        /\ \A f \in DOMAIN out_files : Len(out_files[f]) <= 1

UniqueGids ==
    \A i, j \in DOMAIN turbines_df :
        i # j => turbines_df[i].gid # turbines_df[j].gid

\* The same for turbine datasets in which every gid occurs once.
C19_HoldsForUniqueGids ==
    (mode = "viewshed_run" /\ UniqueGids) =>
        /\ \A i \in DOMAIN vtask_state :
                Cardinality(WritersOf(OutFileName(turbines_df[i].gid))) = 1
        /\ \A f \in DOMAIN out_files : Len(out_files[f]) <= 1


----------------------------------------------------------------------------
(* measures.py classify_look_angle(): from the look angles to the classes *)

\* What calc_lookangle can return, in quarter degrees: arccos is within 0 and
\* 180 degrees, or NaN. The values are those at and next to the thresholds
\* and their mirror images.
LookangleValues ==
    {NaN, 0, 89, 90, 91, 269, 270, 271, 359, 360, 361,
     449, 450, 451, 629, 630, 631, 719, 720}

InitClassify ==
    /\ mode = "classify_look_angle"
    /\ lookangle_raw \in UNION {[1 .. n -> LookangleValues] : n \in 1 .. NumPixels}
    /\ look_class = [ok |-> FALSE]
    /\ class_pc = "start"
    /\ IdleCall
    /\ vrt_sources_df = <<>> /\ full_profile = [width |-> 0, height |-> 0]
    /\ zero_read_raises = FALSE /\ block_size = 0 /\ task_state = EmptyFn
    /\ block_files = EmptyFn /\ max_workers = 0 /\ merge_pc = "idle"
    /\ run_error = <<>> /\ merged_tif = NoFile
    /\ IdleComposite
    /\ IdleBin
    /\ IdleLookup
    /\ IdleWind
    /\ IdleCheck
    /\ IdleRun

ClassesOf(lookangle) == [p \in DOMAIN lookangle |-> LookClassOf(lookangle[p])]

\* if -1 in look_class: raise ValueError
ClassifyRaises ==
    /\ mode = "classify_look_angle" /\ class_pc = "start"
    /\ \E p \in DOMAIN lookangle_raw : ClassesOf(lookangle_raw)[p] = -1
    /\ class_pc' = "raised"
    /\ UNCHANGED <<mode, mosaic_vars, comp_vars, bin_vars, lookup_vars, wind_vars,
                   check_vars, run_vars, lookangle_raw, look_class, call_args,
                   call_result>>

\* return look_class
ClassifyReturns ==
    /\ mode = "classify_look_angle" /\ class_pc = "start"
    /\ \A p \in DOMAIN lookangle_raw : ClassesOf(lookangle_raw)[p] # -1
    /\ look_class' = [ok |-> TRUE, data |-> ClassesOf(lookangle_raw)]
    /\ class_pc' = "returned"
    /\ UNCHANGED <<mode, mosaic_vars, comp_vars, bin_vars, lookup_vars, wind_vars,
                   check_vars, run_vars, lookangle_raw, call_args, call_result>>

NextClassify == ClassifyRaises \/ ClassifyReturns

SpecClassify == InitClassify /\ [][NextClassify]_vars

\* The angle the claim classifies: a above 90 degrees stands for 180 - a.
FoldedAngle(a) == IF a > 360 THEN 720 - a ELSE a

\* C20: classify_look_angle returns FRONT (1) iff the folded angle a has
\* 0 <= a < 22.5, DIAGONAL (2) iff 22.5 <= a <= 67.5, SIDE (3) iff
\* 67.5 < a <= 90, so 22.5 and 67.5 are DIAGONAL; it raises, and returns no
\* class at all, iff some folded value is undefined or outside 0 .. 90.
C20_ClassesByFoldedAngleOrRaise ==
    (mode = "classify_look_angle" /\ class_pc # "start") =>
        LET Unclassifiable(p) ==
                \/ lookangle_raw[p] = NaN
                \/ FoldedAngle(lookangle_raw[p]) < 0
                \/ FoldedAngle(lookangle_raw[p]) > 360
        IN  /\ class_pc = "raised" <=> \E p \in DOMAIN lookangle_raw : Unclassifiable(p)
            /\ class_pc = "raised" => look_class = [ok |-> FALSE]
            /\ class_pc = "returned" =>
                /\ look_class.ok
                /\ DOMAIN look_class.data = DOMAIN lookangle_raw
                /\ \A p \in DOMAIN lookangle_raw :
                    LET a == FoldedAngle(lookangle_raw[p])
                        c == look_class.data[p]
                    IN  /\ c \in {1, 2, 3}
                        /\ c = 1 <=> (0 <= a /\ a < 90)
                        /\ c = 2 <=> (90 <= a /\ a <= 270)
                        /\ c = 3 <=> (270 < a /\ a <= 360)
                        /\ a \in {90, 270} => c = 2

\* A returned array with a folded angle on each of the two boundaries.
C20_Witness ==
    /\ mode = "classify_look_angle"
    /\ class_pc = "returned"
    /\ \E p, q \in DOMAIN lookangle_raw :
        /\ lookangle_raw[p] = 630 /\ look_class.data[p] = 2
        /\ lookangle_raw[q] = 270 /\ look_class.data[q] = 2


----------------------------------------------------------------------------
(* measures.py calc_lookangle(): the look angle in floating point *)

\* Every group but the arguments and the result of a called function is idle.
IdleButCall ==
    /\ IdleMosaic /\ IdleComposite /\ IdleBin /\ IdleLookup /\ IdleWind
    /\ IdleCheck /\ IdleRun
    /\ lookangle_raw = <<>> /\ look_class = [ok |-> FALSE] /\ class_pc = "idle"

\* What a call leaves alone: everything but its result.
call_frame ==
    <<mode, mosaic_vars, comp_vars, bin_vars, lookup_vars, wind_vars, check_vars,
      run_vars, lookangle_raw, look_class, class_pc, call_args>>

\* Bearings in hundredths of a degree: equal, 0.01 degrees apart, at the
\* class thresholds, and one and two turns up.
Bearings == {0, 1, 200, 2250, 6750, 9000, 18000, 22500, 36000, 45000}

\* The angle between two bearings, in hundredths of a degree.
UndirectedAngle(a, b) ==
    LET d == Abs(a - b) % 36000
    IN  Min(d, 36000 - d)

\* 1.0 in the fixed point of the dot product: numbers are counted in 2^-30.
One30 == 1073741824

\* cos of an angle in hundredths of a degree, in units of 2^-30.
Cos30 ==
    0 :> 1073741824 @@ 1 :> 1073741808 @@ 199 :> 1073094253 @@
    200 :> 1073087729 @@ 2050 :> 1005744105 @@ 2249 :> 992079795 @@
    2250 :> 992008094 @@ 4500 :> 759250125 @@ 6550 :> 445273479 @@
    6749 :> 411076338 @@ 6750 :> 410903207 @@ 8800 :> 37473049 @@
    8999 :> 187403 @@ 9000 :> 0 @@ 11250 :> -410903207 @@
    13500 :> -759250125 @@ 13501 :> -759382628 @@ 13700 :> -785285058 @@
    15750 :> -992008094 @@ 17800 :> -1073087729 @@ 17999 :> -1073741808 @@
    18000 :> -1073741824

\* sin(a) sin(b) + cos(a) cos(b) in double precision: cos(a - b), off by a
\* rounding error eps far below 2^-30 in either direction or not at all.
DotProduct(a, b, eps) == [v |-> Cos30[UndirectedAngle(a, b)], eps |-> eps]

\* The gap between neighbouring float32 numbers at v: 24 significant bits.
RECURSIVE Float32Ulp(_)
Float32Ulp(v) == IF Abs(v) < 16777216 THEN 1 ELSE 2 * Float32Ulp(Abs(v) \div 2)

\* The dot product left in double precision.
KeepFloat64(x) == x

\* .astype("float32"): the nearest float32 number, ties to the even one.
CastFloat32(x) ==
    LET u == Float32Ulp(x.v)
        lo == (x.v \div u) * u
        r == x.v - lo
        up == \/ 2 * r > u
              \/ 2 * r = u /\ x.eps > 0
              \/ 2 * r = u /\ x.eps = 0 /\ (lo \div u) % 2 = 1
    IN  [v |-> IF up THEN lo + u ELSE lo, eps |-> 0]

\* np.degrees(np.arccos(x)) of a float32 number x, both computed in float32:
\* the arccosine rounded to float32, times the float32 number nearest to
\* 180 / pi, rounded to float32. The results are float32 numbers, written
\* exactly in units of 2^-23 degree (90 is 754974720, 67.5 is 566231040).
ArccosDegrees23 ==
    -1073741824 :> 1509949440 @@ -1073087744 :> 1493172224 @@
    -992008064 :> 1321205632 @@ -785285056 :> 1149239296 @@
    -759382656 :> 1132545920 @@ -759250112 :> 1132462080 @@
    -410903200 :> 943718336 @@ 0 :> 754974720 @@ 187403 :> 754890816 @@
    37473048 :> 738197440 @@ 410903200 :> 566231040 @@
    411076352 :> 566147136 @@ 445273472 :> 549453760 @@
    759250112 :> 377487360 @@ 992008064 :> 188743696 @@
    992079808 :> 188659760 @@ 1005744128 :> 171966432 @@
    1073087744 :> 16777029 @@ 1073094272 :> 16693090 @@ 1073741824 :> 0

\* np.degrees(np.arccos(x)): NaN outside -1 .. 1, else the angle of the
\* nearest tabulated number, in units of 2^-23 degree.
ArccosDegrees(x) ==
    IF \/ x.v > One30 \/ x.v < -One30
       \/ x.v = One30 /\ x.eps > 0
       \/ x.v = -One30 /\ x.eps < 0
    THEN NaN
    ELSE LET k == CHOOSE k \in DOMAIN ArccosDegrees23 :
                    \A j \in DOMAIN ArccosDegrees23 :
                        Abs(k \div 2 - x.v \div 2) <= Abs(j \div 2 - x.v \div 2)
         IN  ArccosDegrees23[k]

calc_lookangle_float(direction_from_turbine, turbine_bearing, eps) ==
    ArccosDegrees(CastFloat32(DotProduct(direction_from_turbine, turbine_bearing, eps)))

InitLookangle ==
    /\ mode = "calc_lookangle"
    /\ call_args \in Bearings \X Bearings
    /\ call_result = NoResult
    /\ IdleButCall

CalcLookangle ==
    /\ mode = "calc_lookangle" /\ call_result = NoResult
    /\ \E eps \in {-1, 0, 1} :
        call_result' = Returned(calc_lookangle_float(call_args[1], call_args[2], eps))
    /\ UNCHANGED call_frame

NextLookangle == CalcLookangle

SpecLookangle == InitLookangle /\ [][NextLookangle]_vars

LookangleReturned == mode = "calc_lookangle" /\ call_result.done

\* An angle of c hundredths of a degree in units of 2^-23 degree
\* (83886.08 units to the hundredth), rounded down.
Degrees23(c) == c * 83886 + (c * 8) \div 100

\* How far the returned look angle is from the angle between the bearings,
\* in units of 2^-23 degree.
LookangleError ==
    Abs(call_result.value - Degrees23(UndirectedAngle(call_args[1], call_args[2])))

\* C21 as stated: the look angle is the undirected angle between the two
\* bearings (to the 0.001 degree of the repository's tests, 8389 units),
\* within 0 .. 180, symmetric, 0 for equal bearings and never undefined.
C21_LookangleIsUndirectedAngle ==
    LookangleReturned =>
        /\ call_result.value # NaN
        /\ call_result.value >= 0 /\ call_result.value <= 1509949440
        /\ LookangleError <= 8389
        /\ UndirectedAngle(call_args[1], call_args[2]) = 0 => call_result.value = 0
        /\ \E eps \in {-1, 0, 1} :
            call_result.value = calc_lookangle_float(call_args[2], call_args[1], eps)

\* C21 amended: the look angle is never undefined, lies within 0 .. 180, is
\* symmetric, is exactly 0 for bearings that are equal up to whole turns, and
\* is the undirected angle to within 0.02 degree, 167772 units (the float32
\* cast merges angles closer than that to 0 or 180 with 0 or 180).
C21_LookangleWithinFloat32Resolution ==
    LookangleReturned =>
        /\ call_result.value # NaN
        /\ call_result.value >= 0 /\ call_result.value <= 1509949440
        /\ LookangleError <= 167772
        /\ UndirectedAngle(call_args[1], call_args[2]) = 0 => call_result.value = 0
        /\ \E eps \in {-1, 0, 1} :
            call_result.value = calc_lookangle_float(call_args[2], call_args[1], eps)

\* calc_lookangle(225, 225) has returned 0.
C21_Witness ==
    /\ LookangleReturned
    /\ call_args = <<22500, 22500>>
    /\ call_result.value = 0


----------------------------------------------------------------------------
(* measures.py classify_look_angle() on the floating-point look angle *)

\* lookangle[lookangle > 90] = 180 - lookangle[lookangle > 90], the look angle
\* in units of 2^-23 degree; the float32 difference is exact, every look angle
\* above 90 being a multiple of 2^-17 degree.
FoldLookangle23(a) == IF a # NaN /\ a > 754974720 THEN 1509949440 - a ELSE a

\* The nested np.where on a look angle in units of 2^-23 degree:
\* 22.5 is 188743680, 67.5 is 566231040 and 90 is 754974720.
LookClass23(a) ==
    LET lookangle == FoldLookangle23(a)
    IN  IF lookangle # NaN /\ lookangle >= 0 /\ lookangle < 188743680 THEN 1
        ELSE IF lookangle # NaN /\ lookangle >= 188743680 /\ lookangle <= 566231040
             THEN 2
        ELSE IF lookangle # NaN /\ lookangle > 566231040 /\ lookangle <= 754974720
             THEN 3
        ELSE -1

\* The class of one viewer direction; -1 is where the function raises.
classify_look_angle_float(direction_from_turbine, turbine_bearing, eps) ==
    LookClass23(calc_lookangle_float(direction_from_turbine, turbine_bearing, eps))

\* Offsets of a sweep, in hundredths of a degree, each with its mirror image
\* about 90 degrees: the axes, the thresholds and their neighbourhood.
SweepOffsets ==
    {0, 1, 200, 2250, 4500, 6750, 9000, 11250, 13500, 15750, 17800,
     17999, 18000}

SweepBearings == {0, 4500, 9000, 22500, 31500}

InitSweep ==
    /\ mode = "classify_sweep"
    /\ call_args \in SweepBearings \X SweepOffsets
    /\ call_result = NoResult
    /\ IdleButCall

\* classify_look_angle for the viewers at t + x, t - x and t + 180 + x of a
\* turbine facing t, and for the viewer at t + x of a turbine facing t + 180.
ClassifySweep ==
    /\ mode = "classify_sweep" /\ ~call_result.done
    /\ LET t == call_args[1]
           x == call_args[2]
       IN  \E e \in [1 .. 4 -> {-1, 0, 1}] :
            call_result' = Returned(<<classify_look_angle_float(t + x, t, e[1]),
                                      classify_look_angle_float(t - x, t, e[2]),
                                      classify_look_angle_float(t + 18000 + x, t, e[3]),
                                      classify_look_angle_float(t + x, t + 18000, e[4])>>)
    /\ UNCHANGED call_frame

SpecSweep == InitSweep /\ [][ClassifySweep]_vars

SweepReturned == mode = "classify_sweep" /\ call_result.done

\* C22: for a turbine facing t and every offset x, the viewers at t + x,
\* t - x and t + 180 + x get the same aspect class, and so does the viewer at
\* t + x when the turbine faces t + 180 (wind directions d and d + 180).
C22_ClassesSymmetricOverSweep ==
    SweepReturned =>
        /\ call_result.value[1] \in {1, 2, 3}
        /\ \A i \in 2 .. 4 : call_result.value[i] = call_result.value[1]

\* The viewers at t + x and t - x always get the same class, and so do the
\* viewer behind and the viewer of the turbine turned by 180 degrees.
C22_MirrorViewersAgree ==
    SweepReturned =>
        /\ \A i \in 1 .. 4 : call_result.value[i] \in {1, 2, 3}
        /\ call_result.value[2] = call_result.value[1]
        /\ call_result.value[4] = call_result.value[3]

\* Front and back agree at every offset but 67.5 and 112.5 degrees, where one
\* look angle is exactly 67.5 and the other folds to 67.5 + 2^-17.
C22_FrontBackAgreeOffThreshold ==
    (SweepReturned /\ call_args[2] \notin {6750, 11250}) =>
        call_result.value[3] = call_result.value[1]

\* The sweep at the 67.5 degree threshold: DIAGONAL in front, SIDE behind.
C22_ThresholdSplits ==
    /\ SweepReturned
    /\ call_args[2] = 6750
    /\ call_result.value = <<2, 2, 3, 3>>


----------------------------------------------------------------------------
(* measures.py calc_distance_and_direction() *)

MaxWindow == 8

\* Twice the centre coordinate of an axis of n cells, taken as n // 2 whatever n.
Center2Floor(n) == 2 * (n \div 2)

\* Twice the centre coordinate of an axis of n cells: (n - 1) / 2 when n is
\* even, n // 2 when n is odd.
Center2(n) == IF n % 2 = 0 THEN n - 1 ELSE 2 * (n \div 2)

\* np.degrees(np.arctan2(y, x)) on the axes and the diagonals, where it is
\* exact in floating point.
ArcTan2Degrees(y, x) ==
    IF y = 0 THEN (IF x >= 0 THEN 0 ELSE 180)
    ELSE IF x = 0 THEN (IF y > 0 THEN 90 ELSE -90)
    ELSE IF y > 0 THEN (IF x > 0 THEN 45 ELSE 135)
    ELSE (IF x > 0 THEN -45 ELSE -135)

\* The direction with negative angles left as they are.
DirectionUnfixed(gx2, gy2) ==
    IF gx2 = 0 \/ gy2 = 0 \/ Abs(gx2) = Abs(gy2)
    THEN [deg |-> ArcTan2Degrees(gx2, gy2) + 90]
    ELSE [toward |-> <<gx2, gy2>>]

\* degrees(arctan2(grid_x, grid_y) + pi / 2), plus 360 where negative; off
\* the axes and the diagonals the direction is kept as the doubled offsets
\* (rows down, columns right) it points along.
DirectionOf(gx2, gy2) ==
    IF gx2 = 0 \/ gy2 = 0 \/ Abs(gx2) = Abs(gy2)
    THEN LET d == ArcTan2Degrees(gx2, gy2) + 90
         IN  [deg |-> IF d < 0 THEN d + 360 ELSE d]
    ELSE [toward |-> <<gx2, gy2>>]

\* The two arrays over the cells <<row, column>> counted from 0; the
\* distance is given by four times its square.
calc_distance_and_direction(shape) ==
    LET n_rows == shape[1]
        n_cols == shape[2]
        cells == (0 .. n_rows - 1) \X (0 .. n_cols - 1)
        grid_x2 == [c \in cells |-> 2 * c[1] - Center2(n_rows)]
        grid_y2 == [c \in cells |-> 2 * c[2] - Center2(n_cols)]
    IN  [distance_sq4 |-> [c \in cells |-> grid_x2[c] * grid_x2[c]
                                            + grid_y2[c] * grid_y2[c]],
         direction |-> [c \in cells |-> DirectionOf(grid_x2[c], grid_y2[c])]]

InitWindow ==
    /\ mode = "calc_distance_and_direction"
    /\ call_args \in (1 .. MaxWindow) \X (1 .. MaxWindow)
    /\ call_result = NoResult
    /\ IdleButCall

CalcDistanceAndDirection ==
    /\ mode = "calc_distance_and_direction" /\ ~call_result.done
    /\ call_result' = Returned(calc_distance_and_direction(call_args))
    /\ UNCHANGED call_frame

SpecWindow == InitWindow /\ [][CalcDistanceAndDirection]_vars

WindowReturned == mode = "calc_distance_and_direction" /\ call_result.done

\* The centre cells of the top, right, bottom and left edges have directions
\* 0, 90, 180, 270 and distances rows // 2 or columns // 2; the corners of a
\* square window have directions 45, 135, 225, 315.
OddWindowCardinals ==
    LET rows == call_args[1]
        cols == call_args[2]
        distance_sq4 == call_result.value.distance_sq4
        direction == call_result.value.direction
        top == <<0, cols \div 2>>
        right == <<rows \div 2, cols - 1>>
        bottom == <<rows - 1, cols \div 2>>
        left == <<rows \div 2, 0>>
    IN  /\ direction[top] = [deg |-> 0]
        /\ direction[right] = [deg |-> 90]
        /\ direction[bottom] = [deg |-> 180]
        /\ direction[left] = [deg |-> 270]
        /\ distance_sq4[top] = 4 * (rows \div 2) * (rows \div 2)
        /\ distance_sq4[bottom] = 4 * (rows \div 2) * (rows \div 2)
        /\ distance_sq4[right] = 4 * (cols \div 2) * (cols \div 2)
        /\ distance_sq4[left] = 4 * (cols \div 2) * (cols \div 2)
        /\ rows = cols =>
            /\ direction[<<0, cols - 1>>] = [deg |-> 45]
            /\ direction[<<rows - 1, cols - 1>>] = [deg |-> 135]
            /\ direction[<<rows - 1, 0>>] = [deg |-> 225]
            /\ direction[<<0, 0>>] = [deg |-> 315]

\* C23 as stated: the cardinal and corner values hold for every window with
\* an odd number of rows and of columns.
C23_OddWindowCardinalsExact ==
    (WindowReturned /\ call_args[1] % 2 = 1 /\ call_args[2] % 2 = 1) =>
        OddWindowCardinals

\* C23 amended: they hold for every window with an odd number, at least 3,
\* of rows and of columns.
C23_OddWindowCardinalsFromThree ==
    (/\ WindowReturned /\ call_args[1] % 2 = 1 /\ call_args[2] % 2 = 1
     /\ call_args[1] >= 3 /\ call_args[2] >= 3) =>
        OddWindowCardinals

\* A 5 x 5 window has been computed.
C23_Witness ==
    /\ WindowReturned
    /\ call_args = <<5, 5>>
    /\ call_result.value.direction[<<0, 0>>] = [deg |-> 315]

\* Four times the square of the distance at the four edge cells used for
\* north, south, east and west, against four times the square of d.
EvenWindowEdgeDistances(north_south_sq4, east_west_sq4) ==
    LET rows == call_args[1]
        cols == call_args[2]
        distance_sq4 == call_result.value.distance_sq4
    IN  /\ distance_sq4[<<0, cols \div 2>>] = north_south_sq4
        /\ distance_sq4[<<rows - 1, cols \div 2>>] = north_south_sq4
        /\ distance_sq4[<<rows \div 2, 0>>] = east_west_sq4
        /\ distance_sq4[<<rows \div 2, cols - 1>>] = east_west_sq4

\* C24 as stated: in a window with an even number of rows and of columns the
\* distance at those four cells is (axis length) / 2 - 0.5.
C24_EvenWindowDistanceIsHalfMinusHalf ==
    (WindowReturned /\ call_args[1] % 2 = 0 /\ call_args[2] % 2 = 0) =>
        EvenWindowEdgeDistances((call_args[1] - 1) * (call_args[1] - 1),
                                (call_args[2] - 1) * (call_args[2] - 1))

\* C24 amended: those cells are half a cell off the axis, so the distance is
\* hypot((axis length) / 2 - 0.5, 0.5).
C24_EvenWindowDistanceIsOffAxis ==
    (WindowReturned /\ call_args[1] % 2 = 0 /\ call_args[2] % 2 = 0) =>
        EvenWindowEdgeDistances((call_args[1] - 1) * (call_args[1] - 1) + 1,
                                (call_args[2] - 1) * (call_args[2] - 1) + 1)

\* A 4 x 4 window has been computed: the north cell is at distance hypot(1.5, 0.5).
C24_Witness ==
    /\ WindowReturned
    /\ call_args = <<4, 4>>
    /\ call_result.value.distance_sq4[<<0, 2>>] = 10


----------------------------------------------------------------------------
(* raster.py merge_tifs() over the blocks of one merge run *)

\* C25: the merged raster of a merge run is what merge_tifs gives for the
\* run's block files listed in any order whatever, so merging the same
\* blocks again, in any order, gives the same raster; every pixel of it is
\* the pixel of the block at that place, copied and not computed.
C25_MergeIsOrderIndependent ==
    (mode = "merge" /\ merge_pc = "done") =>
        /\ \A listing \in Orderings(DOMAIN block_files) :
                merge_tifs(block_files, listing) = merged_tif
        /\ \A p \in DOMAIN merged_tif.data :
            \E k \in DOMAIN block_files :
                LET q == <<p[1] + merged_tif.row_off - block_files[k].row_off,
                           p[2] + merged_tif.col_off - block_files[k].col_off>>
                IN  /\ q \in DOMAIN block_files[k].data
                    /\ merged_tif.data[p] = block_files[k].data[q]

\* A finished merge of four blocks with a pixel that is not zero.
C25_Witness ==
    /\ mode = "merge" /\ merge_pc = "done"
    /\ Cardinality(DOMAIN block_files) = 4
    /\ \E p \in DOMAIN merged_tif.data : merged_tif.data[p] # 0


----------------------------------------------------------------------------
(* raster.py mosaic_block(): the extra row of the buffer *)

\* C26: a block raster written by mosaic_block has exactly
\* min(block_size, H - row_offset) rows and min(block_size, W - col_offset)
\* columns, starts at mosaic pixel (row_offset, col_offset), and each of its
\* pixels holds the sources' values at its own mosaic pixel, none of the row
\* below the block that the buffer also read.
C26_ExtraRowIsDropped ==
    mode = "mosaic_block" =>
        \A k \in WrittenBlocks :
            LET blk == block_files[k]
                rows == Min(block_size, full_profile.height - k[1])
                cols == Min(block_size, full_profile.width - k[2])
            IN  /\ blk.height = rows /\ blk.width = cols
                /\ blk.row_off = k[1] /\ blk.col_off = k[2]
                /\ DOMAIN blk.data = Cells(rows, cols)
                /\ \A p \in DOMAIN blk.data :
                        blk.data[p] = SumOfSourcesAt(vrt_sources_df,
                                                     k[1] + p[1], k[2] + p[2])

\* A written block of full height whose extra row, the mosaic row just below
\* it, holds a source value that differs from the block's last row.
C26_Witness ==
    /\ mode = "mosaic_block"
    /\ \E k \in WrittenBlocks :
        LET blk == block_files[k]
            below == k[1] + blk.height
        IN  /\ blk.height = block_size
            /\ below < full_profile.height
            /\ \E c \in 0 .. blk.width - 1 :
                /\ SumOfSourcesAt(vrt_sources_df, below, k[2] + c) # 0
                /\ SumOfSourcesAt(vrt_sources_df, below, k[2] + c)
                        # blk.data[<<blk.height - 1, c>>]


----------------------------------------------------------------------------
(* cli/viewshed.py _split_turbines(): the batches of the nodes *)

MaxCount == 10

MaxNodes == 6

\* The whole part of n / k, at least 1.
FloorDivFromOne(n, k) == Max(1, n \div k)

\* int(np.ceil(turbines_count / nodes))
CeilDiv(n, k) == (n + k - 1) \div k

split_turbines(turbines_count, nodes) ==
    LET batch_size == CeilDiv(turbines_count, nodes)
        skip_features == Arange(turbines_count, batch_size)
    IN  <<batch_size, skip_features>>

\* gpd.read_file(max_features=batch_size, skip_features=offset): the rows,
\* counted from 0, that one node reads out of turbines_count rows.
BatchRows(offset, batch_size, turbines_count) ==
    {i \in 0 .. turbines_count - 1 : offset <= i /\ i < offset + batch_size}

InitSplit ==
    /\ mode = "split_turbines"
    /\ call_args \in (1 .. MaxCount) \X (1 .. MaxNodes)
    /\ call_result = NoResult
    /\ IdleButCall

SplitTurbines ==
    /\ mode = "split_turbines" /\ ~call_result.done
    /\ call_result' = Returned(split_turbines(call_args[1], call_args[2]))
    /\ UNCHANGED call_frame

SpecSplit == InitSplit /\ [][SplitTurbines]_vars

\* C27: batch_size is ceil(n / k), the offsets are the multiples of
\* batch_size below n, and the batches partition the n turbines: each
\* turbine is in exactly one batch, no batch is empty, and there are at most
\* k batches.
C27_BatchesPartitionTurbines ==
    (mode = "split_turbines" /\ call_result.done) =>
        LET n == call_args[1]
            k == call_args[2]
            batch_size == call_result.value[1]
            skip_features == call_result.value[2]
            batch(j) == BatchRows(skip_features[j], batch_size, n)
        IN  /\ batch_size * k >= n /\ (batch_size - 1) * k < n
            /\ \A j \in DOMAIN skip_features :
                    skip_features[j] = (j - 1) * batch_size /\ skip_features[j] < n
            /\ Len(skip_features) * batch_size >= n
            /\ \A i \in 0 .. n - 1 :
                    Cardinality({j \in DOMAIN skip_features : i \in batch(j)}) = 1
            /\ \A j \in DOMAIN skip_features : batch(j) # {}
            /\ Len(skip_features) >= 1 /\ Len(skip_features) <= k

\* Ten turbines on four nodes: batches of three, the last one of one turbine.
C27_Witness ==
    /\ mode = "split_turbines" /\ call_result.done
    /\ call_args = <<10, 4>>
    /\ call_result.value = <<3, <<0, 3, 6, 9>>>>


----------------------------------------------------------------------------
(* cli/viewshed.py viewshed(): wind-direction columns out of range *)

OutOfRangeColumns ==
    {k \in DOMAIN winddir_cols : winddir_cols[k] < 0 \/ winddir_cols[k] > 360}

\* C28: a task whose turbine has a wind-direction column with an angle
\* outside 0 .. 360 ends by raising, whatever the weights in the columns.
C28_OutOfRangeColumnRaises ==
    (/\ mode = "viewshed_winddirs"
     /\ OutOfRangeColumns # {}
     /\ vs_pc \in {"done", "raised"}) =>
        /\ vs_pc = "raised"
        /\ ~fov_pct_weighted.exists

\* The same for out-of-range columns that hold a positive weight.
C28_HoldsForPositiveWeights ==
    (/\ mode = "viewshed_winddirs"
     /\ \E k \in OutOfRangeColumns : turbine.freq_winddir[k] > 0
     /\ vs_pc \in {"done", "raised"}) =>
        /\ vs_pc = "raised"
        /\ ~fov_pct_weighted.exists


----------------------------------------------------------------------------
(* cli/merge.py run(): the offsets submitted to mosaic_block *)

\* The mosaic pixels a written block holds.
PixelsOfBlock(k) ==
    {<<k[1] + p[1], k[2] + p[2]>> : p \in DOMAIN block_files[k].data}

OffsetsInsideAndCovering ==
    /\ \A k \in DOMAIN task_state :
            k[1] < full_profile.height /\ k[2] < full_profile.width
    /\ \A k \in DOMAIN task_state :
            task_state[k] \in {"ok", "failed"} =>
                /\ task_state[k] = "ok"
                /\ block_files[k].height >= 1 /\ block_files[k].width >= 1
    /\ merge_pc \in {"collect", "done", "raised"} =>
            \A px \in Cells(full_profile.height, full_profile.width) :
                Cardinality({k \in DOMAIN block_files : px \in PixelsOfBlock(k)}) = 1

\* C29: every offset pair that run() submits lies strictly inside the
\* extent, so every block task writes a block of at least one row and one
\* column, and the written blocks cover every mosaic pixel exactly once.
C29_OffsetsInsideExtent ==
    (mode = "merge" /\ merge_pc # "start" /\ ~zero_read_raises) =>
        OffsetsInsideAndCovering

\* The same when neither the height nor the width is a multiple of block_size.
C29_HoldsOffMultiples ==
    (/\ mode = "merge" /\ merge_pc # "start" /\ ~zero_read_raises
     /\ full_profile.height % block_size # 0
     /\ full_profile.width % block_size # 0) =>
        OffsetsInsideAndCovering


----------------------------------------------------------------------------
(* The lookup table from the completeness check to the lookup of a task *)

\* The rows a table may hold for a turbine of rotor diameter 0 and hub height
\* 0 (ladder <<0>>): the three rotations at the distance levels 1000 and 4000.
CoverageRowKeys ==
    <<<<0, 0, 0, 1000, "FRONT">>, <<0, 0, 0, 1000, "DIAGONAL">>,
      <<0, 0, 0, 1000, "SIDE">>, <<0, 0, 0, 4000, "FRONT">>,
      <<0, 0, 0, 4000, "DIAGONAL">>, <<0, 0, 0, 4000, "SIDE">>>>

\* A table without repeated rows: some of the rows, each with a percent.
\* (bin_distances has no nearest level to take in a table without rows, so
\* the tables tried hold at least one.)
CoverageTable(S) ==
    LET idx == AscendingSeq(S)
    IN  [i \in DOMAIN idx |->
            FovRow(CoverageRowKeys[idx[i]][1], CoverageRowKeys[idx[i]][2],
                   CoverageRowKeys[idx[i]][3], CoverageRowKeys[idx[i]][4],
                   CoverageRowKeys[idx[i]][5], idx[i])]

\* Distances in metres of the pixels tried.
CoverageDistances == {0, 2600}

\* The table, the turbine set and the limits of a run, and the arrays of one
\* of its tasks; no pixel is further than max_distance_km from the turbine.
InitCoverage ==
    /\ mode = "coverage"
    /\ \E S \in (SUBSET DOMAIN CoverageRowKeys) \ {{}},
          km \in 1 .. MaxDistanceKm,
          obst \in [Pixels -> {0, NOT_VISIBLE_VALUE}],
          dist \in [Pixels -> CoverageDistances],
          cls \in [Pixels -> {1, 3}] :
        /\ \A p \in Pixels : dist[p] <= 1000 * km
        /\ call_args = [fov_df |-> CoverageTable(S),
                        turbines_df |-> <<TurbineRow(1, 0, 0, <<>>)>>,
                        max_distance_km |-> km,
                        obst_height_array |-> obst,
                        distance_array |-> dist,
                        lookangle_array |-> cls]
    /\ call_result = NoResult
    /\ IdleButCall

\* run() checks the table; a task bins the distances and looks the percents up.
CheckThenLookup ==
    /\ mode = "coverage" /\ ~call_result.done
    /\ LET a == call_args
           checked == check_fov_lkup_complete(a.fov_df, a.turbines_df, 1,
                                              a.max_distance_km)
       IN  call_result' =
            Returned([check |-> checked,
                      fov_pct |->
                        IF checked # "passed" THEN [ok |-> FALSE]
                        ELSE lookup_fov_pct(a.fov_df, 0, 0, a.obst_height_array,
                                            bin_distances(a.fov_df, a.distance_array),
                                            a.lookangle_array)])
    /\ UNCHANGED call_frame

SpecCoverage == InitCoverage /\ [][CheckThenLookup]_vars

CoverageChecked ==
    mode = "coverage" /\ call_result.done /\ call_result.value.check = "passed"

NoPixelWithoutValue ==
    /\ call_result.value.fov_pct.ok
    /\ \A p \in Pixels : call_result.value.fov_pct.data[p] # NaN

\* C30: when the table has passed the completeness check, the lookup of a
\* task finds a row for every visible pixel: no pixel is left NaN.
C30_CheckedTableCoversEveryLookup ==
    CoverageChecked => NoPixelWithoutValue

\* The same for tables in which every distance level is within
\* max_distance_km, so that the check looks at every level a pixel can be
\* binned to.
C30_HoldsWhenEveryLevelIsChecked ==
    (/\ CoverageChecked
     /\ \A i \in DOMAIN call_args.fov_df :
            call_args.fov_df[i].distance_m <= 1000 * call_args.max_distance_km) =>
        NoPixelWithoutValue

====
